---- MODULE Spec2Model ----
(***************************************************************************)
(* Model of services/pddb/src/backend/dictionary.rs: DictCacheEntry, the   *)
(* RAM copy of one dictionary of a PDDB basis, with its key cache, small   *)
(* pool, free descriptor-index heap, and the pages it reads and writes     *)
(* through the V2P map and the hardware abstraction.                       *)
(*                                                                         *)
(* The address geometry is scaled down (a virtual page holds VPAGE_SIZE =  *)
(* 4 bytes of payload, a dictionary has KEY_MAXCOUNT = 5 descriptor slots) *)
(* keeping the relations between the constants that the code relies on.    *)
(* The journal word at the head of every plaintext page is not stored: a   *)
(* page is its VPAGE_SIZE payload bytes, so the code's index               *)
(* size_of::<JournalType>() + x is payload position x (1-based: x + 1).    *)
(***************************************************************************)
EXTENDS Integers, Sequences, FiniteSets, TLC

(***************************************************************************)
(* Layout constants (declared in the crate's api.rs, outside src/).        *)
(***************************************************************************)
DK_STRIDE == 2
DK_PER_VPAGE == 2
VPAGE_SIZE == DK_PER_VPAGE * DK_STRIDE
JOURNAL_WIDTH == 1
SMALL_CAPACITY == VPAGE_SIZE - JOURNAL_WIDTH
KEY_MAXCOUNT == 5
DICT_MAXCOUNT == 3
DICT_VSIZE == (KEY_MAXCOUNT + 1) * DK_STRIDE
SMALL_POOL_STRIDE == DICT_VSIZE
SMALL_POOL_START == DICT_MAXCOUNT * DICT_VSIZE
SMALL_POOL_END == SMALL_POOL_START + DICT_MAXCOUNT * SMALL_POOL_STRIDE
LARGE_POOL_START == SMALL_POOL_END
\* unsigned widths, scaled with the address space: u64 and u16 arithmetic
U64_MOD == 4 * LARGE_POOL_START
U16_MOD == 4 * VPAGE_SIZE
U32_MAX == U64_MOD - 1

(***************************************************************************)
(* Bounds of the model.                                                    *)
(***************************************************************************)
\* the dictionary's index in its basis (self.index)
DictIndex == 1
\* physical pages of the device
NumPhys == 6
\* public calls per behaviour
MaxSteps == 3
\* public calls per behaviour of SpecIndex
MaxIndexSteps == 8
\* public calls per behaviour of SpecExtent
MaxExtentSteps == 3
\* public calls per behaviour of SpecPool
MaxPoolSteps == 6
MaxSkipSteps == 8
\* public calls per behaviour of SpecRound
MaxRoundSteps == 5
\* calls per behaviour of SpecHeap
MaxHeapSteps == 8
\* public calls per behaviour of SpecCreate
MaxCreateSteps == 3
\* public calls per behaviour of SpecFill
MaxFillSteps == 6
\* public calls and sync steps per behaviour of SpecCrash
MaxCrashSteps == 8
\* public calls per behaviour of SpecCache
MaxCacheSteps == 4
\* public calls per behaviour of SpecSlot, and the names it uses
MaxSlotSteps == 4
SlotNames == 3
\* public calls per behaviour of SpecSpace, and the free pages it starts with
MaxSpaceSteps == 3
FreePages == 2

Names == {"a", "b"}
IndexNames == <<"a", "b", "c", "d", "e", "f">>
PhysPages == 1 .. NumPhys
Builds == {"debug", "release"}

(***************************************************************************)
(* Helpers.                                                                *)
(***************************************************************************)
Min(a, b) == IF a < b THEN a ELSE b
Zeros(n) == [i \in 1 .. n |-> 0]
Fill(b, n) == [i \in 1 .. n |-> b]
SatAdd1(x) == IF x >= U32_MAX THEN U32_MAX ELSE x + 1
\* data[written..] zipped into dst[pos..]: copies until either runs out
Overlay(dst, pos, src) ==
  [i \in 1 .. Len(dst) |->
     IF i > pos /\ i - pos <= Len(src) THEN src[i - pos] ELSE dst[i]]
Drop(s, n) == IF n >= Len(s) THEN << >> ELSE SubSeq(s, n + 1, Len(s))
Take(s, n) == IF n >= Len(s) THEN s ELSE SubSeq(s, 1, n)
\* PageAlignedVa::from
PageAlignedVa(x) ==
  IF x % VPAGE_SIZE = 0 THEN x ELSE ((x \div VPAGE_SIZE) + 1) * VPAGE_SIZE

(***************************************************************************)
(* Records.                                                                *)
(***************************************************************************)
NoData == [some |-> FALSE, clean |-> TRUE, data |-> << >>]
SmallData(c, d) == [some |-> TRUE, clean |-> c, data |-> d]
\* KeySmallPool::new()
NewKeySmallPool == [contents |-> << >>, avail |-> SMALL_CAPACITY, clean |-> TRUE]
NoPage == [t |-> "none", bytes |-> << >>, desc |-> << >>]
DataPage(b) == [t |-> "data", bytes |-> b, desc |-> << >>]
DescPage(d) == [t |-> "desc", bytes |-> << >>, desc |-> d]
EmptyDesc ==
  [name |-> "", start |-> 0, len |-> 0, reserved |-> 0, valid |-> FALSE,
   unresolved |-> FALSE, age |-> 0]
EmptyDescPage == DescPage([i \in 1 .. DK_PER_VPAGE |-> EmptyDesc])
\* Dictionary::default()
DefaultDictionary == [age |-> 0, num_keys |-> 0, free_key_index |-> 1]

(***************************************************************************)
(* FreeKeyRange and the free descriptor-index heap.  The BinaryHeap is     *)
(* modelled by the set of its ranges; into_sorted_vec orders it by the     *)
(* reversed Ord, that is by descending start.                              *)
(***************************************************************************)
FreeKeyRange(s, r) == [start |-> s, run |-> r]

compare_to(r, index) ==
  IF r.start > 1 /\ index < r.start - 1 THEN "LessThan"
  ELSE IF r.start > 0 /\ index = r.start - 1 THEN "LeftAdjacent"
  ELSE IF index >= r.start /\ index <= r.start + r.run THEN "Within"
  ELSE IF index = r.start + r.run + 1 THEN "RightAdjacent"
  ELSE "GreaterThan"

RECURSIVE into_sorted_vec(_)
into_sorted_vec(S) ==
  IF S = {} THEN << >>
  ELSE LET r == CHOOSE x \in S : \A y \in S : y.start <= x.start
       IN <<r>> \o into_sorted_vec(S \ {r})

\* the loop body of put_free_key_index at position i (0-based) of the vector
RECURSIVE PutLoop(_, _, _, _, _)
PutLoop(vec, i, skip, acc, index) ==
  IF i >= Len(vec) THEN [free_keys |-> acc, panicked |-> FALSE]
  ELSE IF skip THEN PutLoop(vec, i + 1, FALSE, acc, index)
  ELSE LET c == compare_to(vec[i + 1], i) IN
    CASE c = "LessThan" ->
           [free_keys |-> acc \cup {FreeKeyRange(index, 0)}, panicked |-> FALSE]
      [] c = "LeftAdjacent" ->
           PutLoop(vec, i + 1, FALSE,
                   acc \cup {FreeKeyRange(index, vec[i + 1].run + 1)}, index)
      [] c = "Within" -> [free_keys |-> acc, panicked |-> TRUE]
      [] c = "RightAdjacent" ->
           IF i + 1 < Len(vec)
           THEN IF compare_to(vec[i + 2], i) = "LeftAdjacent"
                THEN PutLoop(vec, i + 1, TRUE,
                       acc \cup {FreeKeyRange(vec[i + 1].start,
                                   vec[i + 1].run + vec[i + 2].run + 2)}, index)
                ELSE PutLoop(vec, i + 1, FALSE, acc, index)
           ELSE PutLoop(vec, i + 1, FALSE,
                  acc \cup {FreeKeyRange(vec[i + 1].start, vec[i + 1].run + 1)}, index)
      [] OTHER -> PutLoop(vec, i + 1, FALSE, acc \cup {vec[i + 1]}, index)

\* a push that keeps every other range (what the loop was written to do)
PutKeepingRanges(fk, index) ==
  [free_keys |-> fk \cup {FreeKeyRange(index, 0)}, panicked |-> FALSE]

put_free_key_index(fk, index) == PutLoop(into_sorted_vec(fk), 0, FALSE, {}, index)

\* a pop that takes the range with the greatest start
GetFromHighest(fk, ldki) ==
  IF fk = {} THEN [di |-> 0, free_keys |-> fk, last_disk_key_index |-> ldki]
  ELSE LET r == CHOOSE x \in fk : \A y \in fk : y.start <= x.start
           index == r.start + r.run
       IN [di |-> index,
           free_keys |-> (fk \ {r}) \cup
              (IF r.run > 0 THEN {FreeKeyRange(r.start, r.run - 1)} ELSE {}),
           last_disk_key_index |-> IF index > ldki THEN index + 1 ELSE ldki]

\* get_free_key_index: di = 0 stands for None
get_free_key_index(fk, ldki) ==
  IF fk = {} THEN [di |-> 0, free_keys |-> fk, last_disk_key_index |-> ldki]
  ELSE LET r == CHOOSE x \in fk : \A y \in fk : x.start <= y.start
           index == r.start
       IN [di |-> index,
           free_keys |-> (fk \ {r}) \cup
              (IF r.run > 0 THEN {FreeKeyRange(index + 1, r.run - 1)} ELSE {}),
           last_disk_key_index |-> IF index > ldki THEN index + 1 ELSE ldki]

FreeIndices(fk) == UNION {r.start .. (r.start + r.run) : r \in fk}

(***************************************************************************)
(* The machine: the DictCacheEntry's fields together with the V2P map and  *)
(* the hardware's pages and fastspace that every call borrows.  A call is  *)
(* an operator from machine to machine; panicked records a Rust panic      *)
(* (the process aborts), ret the call's return value, lap the returned     *)
(* large_alloc_ptr.                                                        *)
(***************************************************************************)
Panic(m) == [m EXCEPT !.panicked = TRUE, !.ret = "panic"]

NoIndex == 0 - 1

\* small_storage_index_from_key; NoIndex stands for None
small_storage_index_from_key(kc, dict_index) ==
  LET storage_base == dict_index * SMALL_POOL_STRIDE + SMALL_POOL_START
      storage_end == storage_base + SMALL_POOL_STRIDE
  IN IF kc.start >= storage_base /\ (kc.start + kc.reserved) < storage_end
     THEN (kc.start - storage_base) \div SMALL_CAPACITY
     ELSE NoIndex

\* rebuild_free_pool: one heap entry per slot (slot indices are 0-based)
rebuild_free_pool(sp) ==
  {[avail |-> sp[i].avail, index |-> i - 1] : i \in 1 .. Len(sp)}

\* BinaryHeap<KeySmallPoolOrd>::pop: the entry with the most space
PoolMax(spf) ==
  CHOOSE x \in spf : \A y \in spf :
    y.avail < x.avail \/ (y.avail = x.avail /\ y.index <= x.index)

\* PlaintextCache { data: None, tag: None }; tag 0 stands for None
NewPlaintextCache == [data |-> NoPage, some |-> FALSE, tag |-> 0]

\* hw.data_decrypt_page: None for a page that does not decrypt
DecryptedInto(c, pgs, pp) ==
  [data |-> pgs[pp], some |-> pgs[pp].t # "none", tag |-> pp]

\* a fill that decrypts the page whatever the tag says
PlaintextCacheRefill(c, map, pgs, req_vaddr) ==
  IF req_vaddr \in DOMAIN map
  THEN [c |-> DecryptedInto(c, pgs, map[req_vaddr]),
        hw |-> <<<<"data_decrypt_page", map[req_vaddr]>>>>]
  ELSE [c |-> NewPlaintextCache, hw |-> << >>]

\* PlaintextCache::fill: the cache after the call and the hardware calls made
PlaintextCacheFill(c, map, pgs, req_vaddr) ==
  IF req_vaddr \in DOMAIN map
  THEN IF c.tag # map[req_vaddr]
       THEN [c |-> DecryptedInto(c, pgs, map[req_vaddr]),
             hw |-> <<<<"data_decrypt_page", map[req_vaddr]>>>>]
       ELSE [c |-> c, hw |-> << >>]
  ELSE [c |-> NewPlaintextCache, hw |-> << >>]

\* PlaintextCache::fill followed by a read of its data: the page mapped at
\* vaddr, NoPage when vaddr is unmapped or the page does not decrypt
ReadPage(m, vaddr) ==
  IF vaddr \in DOMAIN m.v2p THEN m.pages[m.v2p[vaddr]] ELSE NoPage

\* hw.try_fast_space_alloc: 0 stands for None
FastSpaceFree(fs) == {pp \in PhysPages : fs[pp] > 0}
try_fast_space_alloc(fs) ==
  IF FastSpaceFree(fs) = {} THEN 0
  ELSE CHOOSE pp \in FastSpaceFree(fs) : \A q \in FastSpaceFree(fs) : pp <= q
TakePage(fs, pp) == [fs EXCEPT ![pp] = @ - 1]

MapSet(f, k, v) == [x \in DOMAIN f \cup {k} |-> IF x = k THEN v ELSE f[x]]

RECURSIVE PadPool(_, _)
PadPool(sp, n) == IF Len(sp) >= n THEN sp ELSE PadPool(Append(sp, NewKeySmallPool), n)

\* try_fill_small_key: returns the machine and the cache entry it was given
try_fill_small_key(m, kc, key_name) ==
  LET pool_index == small_storage_index_from_key(kc, DictIndex) IN
  IF pool_index = NoIndex THEN [m |-> m, kc |-> kc]
  ELSE
    LET sp0 == PadPool(m.small_pool, pool_index + 1)
        ksp == sp0[pool_index + 1]
        sp1 == [sp0 EXCEPT ![pool_index + 1] =
                  [@ EXCEPT !.contents = Append(@, key_name)]]
        m1 == [m EXCEPT !.small_pool = sp1]
    IN IF kc.reserved < kc.len \/ kc.reserved > VPAGE_SIZE \/ ksp.avail < kc.reserved
       THEN [m |-> Panic(m1), kc |-> kc]
       ELSE
         LET sp2 == [sp1 EXCEPT ![pool_index + 1] =
                       [@ EXCEPT !.avail = @ - kc.reserved]]
             m2 == [m EXCEPT !.small_pool = sp2]
             data_vaddr == (kc.start \div VPAGE_SIZE) * VPAGE_SIZE
             page == ReadPage(m2, data_vaddr)
             start_offset == kc.start % VPAGE_SIZE
         IN IF page.t = "data"
            THEN IF start_offset + kc.len > VPAGE_SIZE
                 THEN [m |-> Panic(m2), kc |-> kc]
                 ELSE [m |-> m2,
                       kc |-> [kc EXCEPT !.data = SmallData(TRUE,
                                 SubSeq(page.bytes, start_offset + 1,
                                        start_offset + kc.len))]]
            ELSE [m |-> m2, kc |-> kc]

\* the descriptor slot try_entry of this dictionary, read as fill and
\* ensure_key_entry read it: page "none" when the page is unreadable
DescVaddr(try_entry) ==
  DictIndex * DICT_VSIZE + (try_entry \div DK_PER_VPAGE) * VPAGE_SIZE
ReadDescPage(m, try_entry) ==
  LET pg == ReadPage(m, DescVaddr(try_entry))
  IN IF pg.t = "desc" THEN pg ELSE NoPage
KeyCacheFromDesc(kd, try_entry) ==
  [start |-> kd.start, len |-> kd.len, reserved |-> kd.reserved,
   valid |-> kd.valid, unresolved |-> kd.unresolved, age |-> kd.age,
   descriptor_index |-> try_entry, clean |-> TRUE, data |-> NoData]

\* self.keys.insert(kname, kcache) with the entry try_fill_small_key returns
Filled(r, name) ==
  IF r.m.panicked THEN r.m ELSE [r.m EXCEPT !.keys = MapSet(@, name, r.kc)]

\* an entry that fill takes for present and leaves alone: never
FillKnownNever(m, kname) == FALSE

\* self.keys.contains_key(&kname): the entry is present and fill leaves it alone
FillKnown(m, kname) == kname \in DOMAIN m.keys

\* the scan of fill
RECURSIVE FillLoop(_, _, _, _)
FillLoop(m, try_entry, key_count, alloc_top) ==
  IF m.panicked \/ ~(try_entry < KEY_MAXCOUNT /\ key_count < m.key_count)
  THEN [m |-> m, try_entry |-> try_entry, alloc_top |-> alloc_top]
  ELSE
    LET pg == ReadDescPage(m, try_entry) IN
    IF pg.t = "none"
    THEN FillLoop(m, try_entry + DK_PER_VPAGE, key_count, alloc_top)
    ELSE
      LET kd == pg.desc[(try_entry % DK_PER_VPAGE) + 1] IN
      IF ~kd.valid THEN FillLoop(m, try_entry + 1, key_count, alloc_top)
      ELSE IF FillKnown(m, kd.name)
      THEN FillLoop(m, try_entry + 1, key_count + 1, alloc_top)
      ELSE IF kd.start + kd.reserved > alloc_top
      THEN FillLoop([m EXCEPT !.keys = MapSet(@, kd.name, KeyCacheFromDesc(kd, try_entry))],
                    try_entry + 1, key_count + 1, kd.start + kd.reserved)
      ELSE FillLoop(Filled(try_fill_small_key(m, KeyCacheFromDesc(kd, try_entry),
                                              kd.name), kd.name),
                    try_entry + 1, key_count + 1, alloc_top)

\* fill: lap carries the returned alloc_top
FillDone(r) ==
  IF r.m.panicked THEN r.m
  ELSE [r.m EXCEPT !.last_disk_key_index = r.try_entry,
                   !.small_pool_free = rebuild_free_pool(r.m.small_pool),
                   !.lap = r.alloc_top, !.ret = "Ok"]

fill(m) == FillDone(FillLoop(m, 1, 0, LARGE_POOL_START))

\* the scan of ensure_key_entry for a name that is not in the cache
RECURSIVE EnsureLoop(_, _, _, _)
EnsureLoop(m, name_str, try_entry, key_count) ==
  IF ~(try_entry < KEY_MAXCOUNT /\ key_count < m.key_count
       /\ try_entry <= m.last_disk_key_index)
  THEN [m |-> m, found |-> FALSE]
  ELSE
    LET pg == ReadDescPage(m, try_entry) IN
    IF pg.t = "none"
    THEN EnsureLoop(m, name_str, try_entry + DK_PER_VPAGE, key_count)
    ELSE
      LET kd == pg.desc[(try_entry % DK_PER_VPAGE) + 1] IN
      IF ~kd.valid THEN EnsureLoop(m, name_str, try_entry + 1, key_count)
      ELSE IF kd.name = name_str
      THEN [m |-> Filled(try_fill_small_key(m, KeyCacheFromDesc(kd, try_entry),
                                            kd.name), kd.name),
            found |-> TRUE]
      ELSE EnsureLoop(m, name_str, try_entry + 1, key_count + 1)

\* ensure_key_entry: the machine and the returned bool
ensure_key_entry(m, name_str) ==
  IF name_str \notin DOMAIN m.keys THEN EnsureLoop(m, name_str, 1, 0)
  ELSE [m |-> m, found |-> m.keys[name_str].valid]

\* key_list: fills the cache when it holds fewer entries than key_count; the
\* names merged into the list are the domain of the returned machine's keys
key_list(m) ==
  IF Cardinality(DOMAIN m.keys) < m.key_count THEN fill(m) ELSE [m EXCEPT !.ret = "Ok"]

key_contains(m, name) == name \in DOMAIN m.keys

(***************************************************************************)
(* key_remove.                                                             *)
(***************************************************************************)
Range(f) == {f[x] : x \in DOMAIN f}
Position(seq, x) == CHOOSE i \in 1 .. Len(seq) : seq[i] = x /\ \A j \in 1 .. (i - 1) : seq[j] # x
\* Vec::swap_remove
swap_remove(seq, pos) ==
  LET moved == [seq EXCEPT ![pos] = seq[Len(seq)]]
  IN SubSeq(moved, 1, Len(seq) - 1)

\* KeyCacheEntry::large_pool_vpages: the pages of [start, start + reserved)
large_pool_vpages(kc) ==
  {a \in kc.start .. (kc.start + kc.reserved - 1) : (a - kc.start) % VPAGE_SIZE = 0}

\* hw.patch_data of a page of noise over the physical page
PagePatched(m, pp) ==
  [m EXCEPT !.pages[pp] = NoPage, !.hwlog = Append(@, <<"patch_data", pp>>)]

\* hw.fast_space_free of the physical page
PageFreed(m, pp) ==
  [m EXCEPT !.fastspace[pp] = @ + 1, !.hwlog = Append(@, <<"fast_space_free", pp>>)]

\* a removal that returns the page to fastspace and overwrites it afterwards
RemovePageFreedFirst(m, vpage, paranoid) ==
  IF vpage \notin DOMAIN m.v2p THEN m
  ELSE IF paranoid
  THEN PagePatched(
         PageFreed([m EXCEPT !.v2p = [a \in DOMAIN m.v2p \ {vpage} |-> m.v2p[a]]],
                   m.v2p[vpage]),
         m.v2p[vpage])
  ELSE PageFreed([m EXCEPT !.v2p = [a \in DOMAIN m.v2p \ {vpage} |-> m.v2p[a]]],
                 m.v2p[vpage])

\* v2p_map.remove(&vpage): when the address was mapped, the page is
\* overwritten with noise if paranoid and then goes back to fastspace
RemovePage(m, vpage, paranoid) ==
  IF vpage \notin DOMAIN m.v2p THEN m
  ELSE IF paranoid
  THEN PageFreed(
         PagePatched([m EXCEPT !.v2p = [a \in DOMAIN m.v2p \ {vpage} |-> m.v2p[a]]],
                     m.v2p[vpage]),
         m.v2p[vpage])
  ELSE PageFreed([m EXCEPT !.v2p = [a \in DOMAIN m.v2p \ {vpage} |-> m.v2p[a]]],
                 m.v2p[vpage])

\* the lowest address of a set of addresses
Lowest(addrs) == CHOOSE a \in addrs : \A b \in addrs : a <= b

\* the loop over the addresses of addrs, in ascending order; an address
\* that is not mapped is passed over
RECURSIVE RemovePages(_, _, _)
RemovePages(m, addrs, paranoid) ==
  IF addrs \cap DOMAIN m.v2p = {} THEN m
  ELSE RemovePages(RemovePage(m, Lowest(addrs \cap DOMAIN m.v2p), paranoid),
                   addrs \ {Lowest(addrs \cap DOMAIN m.v2p)}, paranoid)

\* the tail of key_remove: put_free_key_index, then rebuild_free_pool
PutBack(m, p, need_rebuild) ==
  IF p.panicked THEN Panic(m)
  ELSE [m EXCEPT !.free_keys = p.free_keys,
                 !.small_pool_free = IF need_rebuild
                                     THEN rebuild_free_pool(m.small_pool) ELSE @,
                 !.ret = "Ok"]

RemoveTail(m, key_to_free, need_rebuild) ==
  PutBack(m, put_free_key_index(m.free_keys, key_to_free), need_rebuild)

\* a removal that leaves the valid flag of the entry set
InvalidatedKeepingValid(kc) == [kc EXCEPT !.clean = FALSE, !.age = SatAdd1(@)]

\* the entry as key_remove leaves it in the cache: dirty, aged, not valid
Invalidated(kc) == [kc EXCEPT !.clean = FALSE, !.age = SatAdd1(@), !.valid = FALSE]

\* key_remove once the entry is in the cache
KeyRemoveFound(m, name, paranoid) ==
  LET kc == m.keys[name]
      small_index == small_storage_index_from_key(kc, DictIndex)
      dead == Invalidated(kc)
      m1 == [m EXCEPT !.clean = FALSE]
  IN IF small_index # NoIndex
     THEN IF small_index + 1 > Len(m1.small_pool) THEN Panic(m1)
          ELSE LET ksp == m1.small_pool[small_index + 1] IN
            IF name \notin Range(ksp.contents) THEN Panic(m1)
            ELSE IF kc.reserved > SMALL_CAPACITY THEN Panic(m1)
            ELSE IF ksp.avail + kc.reserved > SMALL_CAPACITY THEN Panic(m1)
            ELSE RemoveTail(
                   [m1 EXCEPT
                      !.small_pool[small_index + 1] =
                         [contents |-> swap_remove(ksp.contents, Position(ksp.contents, name)),
                          avail |-> ksp.avail + kc.reserved,
                          clean |-> FALSE],
                      !.keys[name] = dead],
                   kc.descriptor_index, TRUE)
     ELSE RemoveTail(
            RemovePages([m1 EXCEPT !.keys[name] = dead], large_pool_vpages(kc), paranoid),
            kc.descriptor_index, FALSE)

\* a key_remove that marks the dictionary dirty before it looks the name up
KeyRemoveMarking(e, name, paranoid) ==
  IF e.m.panicked THEN e.m
  ELSE IF name \notin DOMAIN e.m.keys THEN [e.m EXCEPT !.clean = FALSE, !.ret = "Ok"]
  ELSE KeyRemoveFound(e.m, name, paranoid)

\* key_remove after its ensure_key_entry
KeyRemoveEnsured(e, name, paranoid) ==
  IF e.m.panicked THEN e.m
  ELSE IF name \notin DOMAIN e.m.keys THEN [e.m EXCEPT !.ret = "Ok"]
  ELSE KeyRemoveFound(e.m, name, paranoid)

key_remove(m0, name, paranoid) ==
  KeyRemoveEnsured(ensure_key_entry(m0, name), name, paranoid)

(***************************************************************************)
(* key_update.                                                             *)
(***************************************************************************)
\* hw.data_encrypt_and_patch_page
WritePage(m, pp, bytes) == [m EXCEPT !.pages[pp] = DataPage(bytes)]

\* 1. handle unaligned start offsets
LargePhase1(m, kc, data, offset) ==
  IF (kc.start + offset) % VPAGE_SIZE = 0 THEN [m |-> m, written |-> 0]
  ELSE
    LET start_vpage_addr == ((kc.start + offset) \div VPAGE_SIZE) * VPAGE_SIZE IN
    IF start_vpage_addr \notin DOMAIN m.v2p THEN [m |-> Panic(m), written |-> 0]
    ELSE
      LET pp == m.v2p[start_vpage_addr]
          pt == m.pages[pp]
      IN IF pt.t # "data" THEN [m |-> Panic(m), written |-> 0]
         ELSE IF offset > VPAGE_SIZE THEN [m |-> Panic(m), written |-> 0]
         ELSE
           LET written == Min(Len(data), VPAGE_SIZE - offset) IN
           IF written < Len(data) /\ (kc.start + offset + written) % VPAGE_SIZE # 0
           THEN [m |-> Panic(m), written |-> written]
           ELSE [m |-> WritePage(m, pp, Overlay(pt.bytes, offset, data)),
                 written |-> written]

\* 2. do the rest
RECURSIVE LargePhase2(_, _, _, _, _)
LargePhase2(m, kc, data, offset, written) ==
  IF m.panicked \/ written >= Len(data) THEN m
  ELSE
    LET vpage_addr == ((kc.start + written + offset) \div VPAGE_SIZE) * VPAGE_SIZE IN
    IF vpage_addr \notin DOMAIN m.v2p THEN Panic(m)
    ELSE
      LET pp == m.v2p[vpage_addr]
          src == Drop(data, written)
          n == Min(Len(src), VPAGE_SIZE)
          base == IF Len(data) - written >= VPAGE_SIZE THEN Zeros(VPAGE_SIZE)
                  ELSE IF m.pages[pp].t = "data" THEN m.pages[pp].bytes
                  ELSE Zeros(VPAGE_SIZE)
      IN LargePhase2(WritePage(m, pp, Overlay(base, 0, src)), kc, data, offset, written + n)

\* 3. truncate.  vpage_end_offset - kcache.start is a u64 subtraction: when it
\* underflows a build with overflow checks panics, any other build wraps
LargeTruncate(m, name, data, offset, build) ==
  LET kc == m.keys[name]
      vpage_end_offset == PageAlignedVa(Len(data) + offset)
      diff == vpage_end_offset - kc.start
  IN IF diff < 0 /\ build = "debug" THEN Panic(m)
     ELSE
       LET wrapped == diff % U64_MOD IN
       IF wrapped > kc.reserved
       THEN LET addrs == {a \in vpage_end_offset .. (kc.start + kc.reserved - 1) :
                            (a - vpage_end_offset) % VPAGE_SIZE = 0}
                m1 == RemovePages(m, addrs, FALSE)
            IN [m1 EXCEPT !.keys[name] = [@ EXCEPT !.reserved = wrapped, !.clean = FALSE]]
       ELSE m

\* the key exists and the data fits: the large key branch
LargeWritten(m2, name, data, offset, truncate, build) ==
  IF m2.panicked THEN m2
  ELSE IF truncate THEN LargeTruncate(m2, name, data, offset, build)
  ELSE m2

LargeRest(p1, name, data, offset, truncate, build) ==
  LargeWritten(LargePhase2(p1.m, p1.m.keys[name], data, offset, p1.written),
               name, data, offset, truncate, build)

LargeAged(m1, name, data, offset, truncate, build) ==
  LargeRest(LargePhase1(m1, m1.keys[name], data, offset),
            name, data, offset, truncate, build)

LargeUpdate(m, name, data, offset, truncate, build) ==
  IF m.keys[name].data.some THEN Panic(m)
  ELSE LargeAged([m EXCEPT !.keys[name] =
                    [@ EXCEPT !.age = SatAdd1(@), !.clean = FALSE]],
                 name, data, offset, truncate, build)

\* the key exists and the data fits: the small key branch
SmallUpdate(m, name, data, offset) ==
  LET kc == m.keys[name] IN
  IF ~kc.data.some THEN Panic(m)
  ELSE
    LET old == kc.data.data
        grown == IF Len(old) < Len(data) + offset
                 THEN old \o Zeros(Len(data) + offset - Len(old)) ELSE old
        body == Overlay(grown, offset, data)
        m1 == [m EXCEPT !.keys[name] = [@ EXCEPT !.data = SmallData(FALSE, body)]]
        pool_index == small_storage_index_from_key(kc, DictIndex)
    IN IF pool_index = NoIndex \/ pool_index + 1 > Len(m1.small_pool) THEN Panic(m1)
       ELSE [m1 EXCEPT !.small_pool[pool_index + 1] = [@ EXCEPT !.clean = FALSE]]

\* a reservation that leaves the offset of the write out of account
ReservationOfData(data, offset, alloc_hint) ==
  IF alloc_hint > Len(data) THEN alloc_hint ELSE Len(data)

\* the bytes reserved for a new key: the larger of the hint and the write's end
Reservation(data, offset, alloc_hint) ==
  IF alloc_hint > Len(data) + offset THEN alloc_hint ELSE Len(data) + offset

\* a small-pool test that also admits a reservation of SMALL_CAPACITY
FitsSmallPoolInclusive(data, offset, alloc_hint) ==
  (Len(data) + offset) <= SMALL_CAPACITY /\ alloc_hint <= SMALL_CAPACITY

\* whether a new key goes to the small pool (alloc_hint = 0 stands for None)
FitsSmallPool(data, offset, alloc_hint) ==
  (Len(data) + offset) < SMALL_CAPACITY /\ alloc_hint < SMALL_CAPACITY

\* the small pool slot of a new key: the machine and the slot's index
SmallSlot(m0, name, reservation, build) ==
  LET m == IF Len(m0.small_pool) = 0
           THEN [m0 EXCEPT !.small_pool = <<NewKeySmallPool>>,
                           !.small_pool_free = rebuild_free_pool(<<NewKeySmallPool>>)]
           ELSE m0
  IN IF m.small_pool_free = {} THEN [m |-> Panic(m), index |-> 0]
     ELSE
       LET pool_candidate == PoolMax(m.small_pool_free)
           popped == m.small_pool_free \ {pool_candidate}
       IN IF pool_candidate.avail >= reservation
          THEN IF pool_candidate.index + 1 > Len(m.small_pool)
               THEN [m |-> Panic(m), index |-> 0]
               ELSE
                 LET ksp == m.small_pool[pool_candidate.index + 1] IN
                 IF ksp.avail < reservation /\ build = "debug"
                 THEN [m |-> Panic(m), index |-> 0]
                 ELSE
                   LET avail == (ksp.avail - reservation) % U16_MOD IN
                   [m |-> [m EXCEPT
                       !.small_pool[pool_candidate.index + 1] =
                          [contents |-> Append(ksp.contents, name),
                           avail |-> avail, clean |-> FALSE],
                       !.small_pool_free = popped \cup
                          {[avail |-> avail, index |-> pool_candidate.index]}],
                    index |-> pool_candidate.index]
          ELSE
            LET ksp == [contents |-> <<name>>,
                        avail |-> SMALL_CAPACITY - reservation, clean |-> FALSE]
            IN [m |-> [m EXCEPT
                  !.small_pool_free = @ \cup
                     {[avail |-> ksp.avail, index |-> Len(m.small_pool)]},
                  !.small_pool = Append(@, ksp)],
                index |-> Len(m.small_pool)]

\* the key does not exist: create it in the small pool
\* the descriptor index is taken after the slot has been charged
CreateSmallIndexed(s, g, name, data, offset, alloc_hint, lap) ==
  IF g.di = 0
  THEN [s.m EXCEPT !.free_keys = g.free_keys,
                   !.last_disk_key_index = g.last_disk_key_index,
                   !.ret = "OutOfIndex"]
  ELSE [s.m EXCEPT
          !.free_keys = g.free_keys,
          !.last_disk_key_index = g.last_disk_key_index,
          !.keys = MapSet(@, name,
             [start |-> SMALL_POOL_START + DictIndex * DICT_VSIZE
                          + s.index * SMALL_CAPACITY,
              len |-> Len(data) + offset,
              reserved |-> Reservation(data, offset, alloc_hint),
              valid |-> TRUE, unresolved |-> TRUE, age |-> 0,
              descriptor_index |-> g.di, clean |-> FALSE,
              data |-> SmallData(FALSE, Zeros(offset) \o data)]),
          !.key_count = @ + 1,
          !.ret = "Ok", !.lap = lap]

CreateSmallInSlot(s, name, data, offset, alloc_hint, lap) ==
  IF s.m.panicked THEN s.m
  ELSE CreateSmallIndexed(s, get_free_key_index(s.m.free_keys, s.m.last_disk_key_index),
                          name, data, offset, alloc_hint, lap)

CreateSmall(m0, name, data, offset, alloc_hint, lap, build) ==
  CreateSmallInSlot(SmallSlot(m0, name, Reservation(data, offset, alloc_hint), build),
                    name, data, offset, alloc_hint, lap)

\* 1. allocate all the pages up to the reservation limit
RECURSIVE AllocPages(_, _, _)
AllocPages(m, vpage_addr, end) ==
  IF m.panicked \/ vpage_addr >= end THEN m
  ELSE LET pp == try_fast_space_alloc(m.fastspace) IN
       IF pp = 0 THEN Panic(m)
       ELSE AllocPages([m EXCEPT !.fastspace = TakePage(@, pp),
                                 !.v2p = MapSet(@, vpage_addr, pp)],
                       vpage_addr + VPAGE_SIZE, end)

\* the key does not exist: create it in the large pool, before the recursion
CreateLargeIndexed(m0, g, reservation, name, data, offset, lap) ==
  IF g.di = 0
  THEN [m0 EXCEPT !.free_keys = g.free_keys,
                  !.last_disk_key_index = g.last_disk_key_index,
                  !.ret = "OutOfIndex"]
  ELSE AllocPages(
         [m0 EXCEPT
            !.free_keys = g.free_keys,
            !.last_disk_key_index = g.last_disk_key_index,
            !.keys = MapSet(@, name,
               [start |-> lap, len |-> Len(data) + offset,
                reserved |-> reservation,
                valid |-> TRUE, unresolved |-> FALSE, age |-> 0,
                descriptor_index |-> g.di, clean |-> FALSE, data |-> NoData]),
            !.key_count = @ + 1,
            !.ret = "Created"],
         lap, lap + reservation)

CreateLarge(m0, name, data, offset, alloc_hint, lap) ==
  CreateLargeIndexed(m0, get_free_key_index(m0.free_keys, m0.last_disk_key_index),
                     PageAlignedVa(Reservation(data, offset, alloc_hint)),
                     name, data, offset, lap)

RECURSIVE key_update(_, _, _, _, _, _, _, _)

\* the key exists and the data fits: Ok(large_alloc_ptr)
Updated(w, lap) == IF w.panicked THEN w ELSE [w EXCEPT !.ret = "Ok", !.lap = lap]

\* a retry that passes through one more invocation of key_update before the
\* one that creates the key anew
RegrowRetried(r, name, data, offset, alloc_hint, truncate, lap, build) ==
  IF r.panicked THEN r
  ELSE key_update([r EXCEPT !.age = SatAdd1(@)],
                  name, data, offset, alloc_hint, truncate, lap, build)

\* the key exists but the data does not fit: after the key_remove, recurse
Regrow(r, name, data, offset, alloc_hint, truncate, lap, build) ==
  IF r.panicked THEN r
  ELSE key_update(r, name, data, offset, alloc_hint, truncate, lap, build)

\* 2. recurse, now that the large key exists, with the advanced pointer
WriteCreated(c, name, data, offset, alloc_hint, truncate, lap, build) ==
  IF c.panicked \/ c.ret = "OutOfIndex" THEN c
  ELSE key_update(c, name, data, offset, alloc_hint, truncate,
                  lap + c.keys[name].reserved, build)

\* key_update after its ensure_key_entry
KeyUpdateEnsured(e, name, data, offset, alloc_hint, truncate, lap, build) ==
  IF e.m.panicked THEN e.m
  ELSE IF e.found
  THEN IF e.m.keys[name].reserved < Len(data) + offset
       THEN Regrow(key_remove(e.m, name, FALSE),
                   name, data, offset, alloc_hint, truncate, lap, build)
       ELSE IF e.m.keys[name].start < SMALL_POOL_END
       THEN Updated(SmallUpdate(e.m, name, data, offset), lap)
       ELSE Updated(LargeUpdate(e.m, name, data, offset, truncate, build), lap)
  ELSE IF FitsSmallPool(data, offset, alloc_hint)
       THEN CreateSmall(e.m, name, data, offset, alloc_hint, lap, build)
       ELSE WriteCreated(CreateLarge(e.m, name, data, offset, alloc_hint, lap),
                         name, data, offset, alloc_hint, truncate, lap, build)

key_update(m0, name, data, offset, alloc_hint, truncate, lap, build) ==
  KeyUpdateEnsured(
    ensure_key_entry([m0 EXCEPT !.age = SatAdd1(@), !.clean = FALSE], name),
    name, data, offset, alloc_hint, truncate, lap, build)

(***************************************************************************)
(* sync_small_pool.                                                        *)
(***************************************************************************)
\* the loop over entry.contents: packs each key's body into the page
RECURSIVE PackLoop(_, _, _, _, _, _)
PackLoop(m, contents, k, pool_vaddr, pool_offset, page) ==
  IF m.panicked \/ k > Len(contents) THEN [m |-> m, page |-> page]
  ELSE
    LET key_name == contents[k] IN
    IF key_name \notin DOMAIN m.keys THEN [m |-> Panic(m), page |-> page]
    ELSE
      LET kc == m.keys[key_name]
          m1 == [m EXCEPT !.keys[key_name] =
                   [@ EXCEPT !.start = pool_vaddr + pool_offset,
                             !.age = SatAdd1(@), !.clean = FALSE,
                             !.unresolved = FALSE, !.valid = TRUE]]
      IN IF ~kc.data.some THEN [m |-> Panic(m1), page |-> page]
         ELSE IF pool_offset + kc.reserved > VPAGE_SIZE THEN [m |-> Panic(m1), page |-> page]
         ELSE PackLoop([m1 EXCEPT !.keys[key_name].data.clean = TRUE],
                       contents, k + 1, pool_vaddr, pool_offset + kc.reserved,
                       Overlay(page, pool_offset, Take(kc.data.data, kc.reserved)))

PoolVaddr(index) ==
  DictIndex * SMALL_POOL_STRIDE + SMALL_POOL_START + index * SMALL_CAPACITY

\* a mapping of the slot's page that leaves the page in fastspace
MapPageUntaken(m, vaddr) ==
  IF vaddr \in DOMAIN m.v2p THEN m
  ELSE IF try_fast_space_alloc(m.fastspace) = 0 THEN Panic(m)
  ELSE [m EXCEPT !.v2p = MapSet(@, vaddr, try_fast_space_alloc(m.fastspace))]

\* v2p_map.entry(pool_vaddr).or_insert_with: the machine with the slot's
\* page mapped, panicked when fastspace has no page left
MapPage(m, vaddr) ==
  IF vaddr \in DOMAIN m.v2p THEN m
  ELSE IF try_fast_space_alloc(m.fastspace) = 0 THEN Panic(m)
  ELSE [m EXCEPT !.fastspace = TakePage(@, try_fast_space_alloc(m.fastspace)),
                 !.v2p = MapSet(@, vaddr, try_fast_space_alloc(m.fastspace))]

\* the packed page is written and the slot marked clean
SlotWritten(r, i) ==
  IF r.m.panicked THEN r.m
  ELSE [WritePage(r.m, r.m.v2p[PoolVaddr(i - 1)], r.page) EXCEPT
          !.small_pool[i].clean = TRUE]

SlotPacked(m1, i) ==
  IF m1.panicked THEN m1
  ELSE SlotWritten(PackLoop(m1, m1.small_pool[i].contents, 1, PoolVaddr(i - 1), 0,
                            Zeros(VPAGE_SIZE)), i)

\* the loop over small_pool; i is the 1-based position of slot i - 1
RECURSIVE SyncLoop(_, _)
SyncLoop(m, i) ==
  IF m.panicked \/ i > Len(m.small_pool) THEN m
  ELSE IF m.small_pool[i].clean THEN SyncLoop(m, i + 1)
  ELSE SyncLoop(SlotPacked(MapPage(m, PoolVaddr(i - 1)), i), i + 1)

Returned(r) == IF r.panicked THEN r ELSE [r EXCEPT !.ret = "Ok"]

sync_small_pool(m) == Returned(SyncLoop(m, 1))


(***************************************************************************)
(* alloc_estimate_small.                                                   *)
(***************************************************************************)
\* the positions of a slot's contents whose key is flagged unresolved
UnresolvedIn(m, ksp) ==
  {k \in 1 .. Len(ksp.contents) :
     ksp.contents[k] \in DOMAIN m.keys /\ m.keys[ksp.contents[k]].unresolved}

\* the loop over small_pool: data_estimate and index_estimate; usize
\* arithmetic is taken at the width of U64_MOD
RECURSIVE EstimateLoop(_, _, _, _, _)
EstimateLoop(m, i, data_estimate, index_estimate, build) ==
  IF i > Len(m.small_pool)
  THEN [data |-> data_estimate, index |-> index_estimate, panicked |-> FALSE]
  ELSE IF m.small_pool[i].clean
  THEN EstimateLoop(m, i + 1, data_estimate, index_estimate, build)
  ELSE IF \E k \in 1 .. Len(m.small_pool[i].contents) :
             m.small_pool[i].contents[k] \notin DOMAIN m.keys
  THEN [data |-> 0, index |-> 0, panicked |-> TRUE]
  ELSE IF /\ UnresolvedIn(m, m.small_pool[i]) # {}
          /\ m.small_pool[i].avail > SMALL_CAPACITY /\ build = "debug"
  THEN [data |-> 0, index |-> 0, panicked |-> TRUE]
  ELSE EstimateLoop(m, i + 1,
         data_estimate + Cardinality(UnresolvedIn(m, m.small_pool[i]))
                         * ((SMALL_CAPACITY - m.small_pool[i].avail) % U64_MOD),
         index_estimate + Cardinality(UnresolvedIn(m, m.small_pool[i])),
         build)

\* the estimate computed from the two sums; -1 stands for a panic
EstimateOf(m, e) ==
  IF e.panicked THEN -1
  ELSE (e.data \div VPAGE_SIZE) + 1
       + (IF e.index > DK_PER_VPAGE - (Cardinality(DOMAIN m.keys) % DK_PER_VPAGE)
          THEN ((e.index - (DK_PER_VPAGE - (Cardinality(DOMAIN m.keys) % DK_PER_VPAGE)))
                \div DK_PER_VPAGE) + 1
          ELSE 0)

alloc_estimate_small(m, build) == EstimateOf(m, EstimateLoop(m, 1, 0, 0, build))

(***************************************************************************)
(* The caller's side of persistence, which lives in the basis code: the    *)
(* descriptor-page sync writes the header and every dirty descriptor to    *)
(* the slot its descriptor_index names (tombstones first, as invalid       *)
(* descriptors, and then dropped from the cache), and the page-table sync  *)
(* persists the V2P map, which the model keeps as the single map v2p.      *)
(***************************************************************************)
RECURSIVE SetToSeq(_)
SetToSeq(S) ==
  IF S = {} THEN << >>
  ELSE LET x == CHOOSE y \in S : TRUE IN <<x>> \o SetToSeq(S \ {x})

DescOf(name, kc) ==
  [name |-> name, start |-> kc.start, len |-> kc.len, reserved |-> kc.reserved,
   valid |-> kc.valid, unresolved |-> kc.unresolved, age |-> kc.age]

\* one descriptor patched into its page
WriteDesc(m1, name) ==
  IF m1.panicked THEN m1
  ELSE
    LET kc == m1.keys[name]
        pp == m1.v2p[DescVaddr(kc.descriptor_index)]
        old == IF m1.pages[pp].t = "desc" THEN m1.pages[pp] ELSE EmptyDescPage
        slot == (kc.descriptor_index % DK_PER_VPAGE) + 1
    IN [m1 EXCEPT !.pages[pp] =
          DescPage([old.desc EXCEPT ![slot] = DescOf(name, kc)])]

RECURSIVE WriteDescs(_, _, _)
WriteDescs(m, names, k) ==
  IF m.panicked \/ k > Len(names) THEN m
  ELSE WriteDescs(
         WriteDesc(MapPage(m, DescVaddr(m.keys[names[k]].descriptor_index)), names[k]),
         names, k + 1)

DescsWritten(w) ==
  IF w.panicked THEN w
  ELSE [w EXCEPT
          !.keys = [n \in {x \in DOMAIN w.keys : w.keys[x].valid} |->
                      [w.keys[n] EXCEPT !.clean = TRUE]],
          !.clean = TRUE, !.ret = "Ok"]

DirtyNames(m) == {n \in DOMAIN m.keys : ~m.keys[n].clean}
DeadNames(m) == {n \in DirtyNames(m) : ~m.keys[n].valid}

dict_sync(m) ==
  DescsWritten(WriteDescs(m, SetToSeq(DeadNames(m)) \o
                             SetToSeq(DirtyNames(m) \ DeadNames(m)), 1))

\* sync_small_pool, then the descriptor-page sync
SyncDescs(s) == IF s.panicked THEN s ELSE dict_sync(s)
sync_cycle(m) == SyncDescs(sync_small_pool(m))

HeaderOf(m) ==
  [age |-> m.age, num_keys |-> m.key_count, free_key_index |-> m.last_disk_key_index]

\* DictCacheEntry::new over the machine's device
new(m, dict) ==
  [m EXCEPT
     !.keys = << >>,
     !.key_count = dict.num_keys,
     !.free_keys = {FreeKeyRange(dict.free_key_index, KEY_MAXCOUNT - 1)},
     !.last_disk_key_index = dict.free_key_index,
     !.clean = TRUE,
     !.age = dict.age,
     !.small_pool = << >>,
     !.small_pool_free = {},
     !.ret = "Ok"]

(***************************************************************************)
(* State.                                                                  *)
(***************************************************************************)
VARIABLES keys, key_count, free_keys, last_disk_key_index, clean, age,
          small_pool, small_pool_free,
          v2p, pages, fastspace,
          large_alloc_ptr, dict_hdr,
          panicked, op, steps,
          plaintext_cache, pt_disk

cache == <<keys, key_count, free_keys, last_disk_key_index, clean, age,
           small_pool, small_pool_free>>
device == <<v2p, pages, fastspace>>
vars == <<cache, device, large_alloc_ptr, dict_hdr, panicked, op, steps,
          plaintext_cache, pt_disk>>

Cur ==
  [keys |-> keys, key_count |-> key_count, free_keys |-> free_keys,
   last_disk_key_index |-> last_disk_key_index, clean |-> clean, age |-> age,
   small_pool |-> small_pool, small_pool_free |-> small_pool_free,
   v2p |-> v2p, pages |-> pages, fastspace |-> fastspace,
   panicked |-> FALSE, ret |-> "Ok", lap |-> large_alloc_ptr, hwlog |-> << >>]

Becomes(m) ==
  /\ keys' = m.keys
  /\ key_count' = m.key_count
  /\ free_keys' = m.free_keys
  /\ last_disk_key_index' = m.last_disk_key_index
  /\ clean' = m.clean
  /\ age' = m.age
  /\ small_pool' = m.small_pool
  /\ small_pool_free' = m.small_pool_free
  /\ v2p' = m.v2p
  /\ pages' = m.pages
  /\ fastspace' = m.fastspace
  /\ panicked' = m.panicked
  /\ plaintext_cache' = plaintext_cache
  /\ pt_disk' = pt_disk

Call(c, n, d, o, h, t, p, r) ==
  [call |-> c, name |-> n, data |-> d, offset |-> o, alloc_hint |-> h,
   truncate |-> t, paranoid |-> p, ret |-> r, hw |-> << >>]

Init ==
  /\ keys = << >>
  /\ key_count = DefaultDictionary.num_keys
  /\ free_keys = {FreeKeyRange(DefaultDictionary.free_key_index, KEY_MAXCOUNT - 1)}
  /\ last_disk_key_index = DefaultDictionary.free_key_index
  /\ clean = TRUE
  /\ age = DefaultDictionary.age
  /\ small_pool = << >>
  /\ small_pool_free = {}
  /\ v2p = << >>
  /\ pages = [pp \in PhysPages |-> NoPage]
  /\ fastspace = [pp \in PhysPages |-> 1]
  /\ large_alloc_ptr = LARGE_POOL_START
  /\ dict_hdr = DefaultDictionary
  /\ panicked = FALSE
  /\ op = Call("new", "", << >>, 0, 0, FALSE, FALSE, "Ok")
  /\ steps = 0
  /\ plaintext_cache = NewPlaintextCache
  /\ pt_disk = << >>

(***************************************************************************)
(* Actions: one public call each.  A panic aborts the process: nothing     *)
(* runs after it.                                                          *)
(***************************************************************************)
DataSet == {<<1>>, <<2, 2>>, <<3, 3, 3>>, <<4, 4, 4, 4, 4>>}
Offsets == {0, 1}
Hints == {0, 2, 3}

KeyUpdateWith(name, data, offset, alloc_hint, truncate, build) ==
  \E r \in {key_update(Cur, name, data, offset, alloc_hint, truncate,
                       large_alloc_ptr, build)} :
     /\ Becomes(r)
     /\ large_alloc_ptr' = IF r.ret = "Ok" THEN r.lap ELSE large_alloc_ptr
     /\ op' = Call("key_update", name, data, offset, alloc_hint, truncate, FALSE, r.ret)
     /\ UNCHANGED dict_hdr

KeyRemoveWith(name, paranoid) ==
  \E r \in {key_remove(Cur, name, paranoid)} :
     /\ Becomes(r)
     /\ op' = [Call("key_remove", name, << >>, 0, 0, FALSE, paranoid, r.ret)
                 EXCEPT !.hw = r.hwlog]
     /\ UNCHANGED <<large_alloc_ptr, dict_hdr>>

SyncSmallPoolCall ==
  \E r \in {sync_small_pool(Cur)} :
     /\ Becomes(r)
     /\ op' = Call("sync_small_pool", "", << >>, 0, 0, FALSE, FALSE, r.ret)
     /\ UNCHANGED <<large_alloc_ptr, dict_hdr>>

\* the full sync cycle: sync_small_pool, descriptor-page sync, page-table sync
SyncCycleCall ==
  \E r \in {sync_cycle(Cur)} :
     /\ Becomes(r)
     /\ dict_hdr' = IF r.panicked THEN dict_hdr ELSE HeaderOf(r)
     /\ op' = Call("sync", "", << >>, 0, 0, FALSE, FALSE, r.ret)
     /\ UNCHANGED large_alloc_ptr

\* a fresh DictCacheEntry over the disk state, filled; the caller takes the
\* returned alloc_top as its large-pool allocation pointer
ReloadCall ==
  /\ op.call = "sync" /\ op.ret = "Ok"
  /\ \E r \in {fill(new(Cur, dict_hdr))} :
        /\ Becomes(r)
        /\ large_alloc_ptr' = IF r.panicked THEN large_alloc_ptr ELSE r.lap
        /\ op' = Call("reload", "", << >>, 0, 0, FALSE, FALSE, r.ret)
        /\ UNCHANGED dict_hdr

\* a fresh DictCacheEntry over the disk state, not yet filled
NewCall ==
  /\ op.call = "sync" /\ op.ret = "Ok"
  /\ \E r \in {new(Cur, dict_hdr)} :
        /\ Becomes(r)
        /\ op' = Call("new", "", << >>, 0, 0, FALSE, FALSE, r.ret)
        /\ UNCHANGED <<large_alloc_ptr, dict_hdr>>

\* fill; op.offset carries the number of entries it added, and the caller
\* advances its large-pool allocation pointer to the returned alloc_top
FillCall ==
  \E r \in {fill(Cur)} :
     /\ Becomes(r)
     /\ large_alloc_ptr' = IF ~r.panicked /\ r.lap > large_alloc_ptr
                           THEN r.lap ELSE large_alloc_ptr
     /\ op' = Call("fill", "", << >>,
                   Cardinality(DOMAIN r.keys) - Cardinality(DOMAIN keys),
                   0, FALSE, FALSE, r.ret)
     /\ UNCHANGED dict_hdr

EnsureCall(name) ==
  \E e \in {ensure_key_entry(Cur, name)} :
     /\ Becomes(e.m)
     /\ op' = Call("ensure_key_entry", name, << >>, 0, 0, FALSE, FALSE,
                   IF e.m.panicked THEN "panic" ELSE IF e.found THEN "true" ELSE "false")
     /\ UNCHANGED <<large_alloc_ptr, dict_hdr>>

KeyListCall ==
  \E r \in {key_list(Cur)} :
     /\ Becomes(r)
     /\ op' = Call("key_list", "", << >>, 0, 0, FALSE, FALSE, r.ret)
     /\ UNCHANGED <<large_alloc_ptr, dict_hdr>>

\* alloc_estimate_small takes &self: nothing changes but the call record,
\* which carries the estimate in its offset field
EstimateCall(build) ==
  \E e \in {alloc_estimate_small(Cur, build)} :
     /\ Becomes(IF e < 0 THEN Panic(Cur) ELSE Cur)
     /\ op' = Call("alloc_estimate_small", "", << >>, IF e < 0 THEN 0 ELSE e, 0,
                   FALSE, FALSE, IF e < 0 THEN "panic" ELSE "Ok")
     /\ UNCHANGED <<large_alloc_ptr, dict_hdr>>

\* one more public call, of at most max per behaviour
Step(max) == ~panicked /\ steps < max /\ steps' = steps + 1

(***************************************************************************)
(* Spec: every call with every input, two names, MaxSteps calls.           *)
(***************************************************************************)
KeyUpdate ==
  /\ Step(MaxSteps)
  /\ \E name \in Names, data \in DataSet, offset \in Offsets, alloc_hint \in Hints,
        truncate \in BOOLEAN, build \in Builds :
       KeyUpdateWith(name, data, offset, alloc_hint, truncate, build)

KeyRemove ==
  /\ Step(MaxSteps)
  /\ \E name \in Names, paranoid \in BOOLEAN : KeyRemoveWith(name, paranoid)

SyncSmallPool == Step(MaxSteps) /\ SyncSmallPoolCall

SyncCycle == Step(MaxSteps) /\ SyncCycleCall

Reload == Step(MaxSteps) /\ ReloadCall

Next == KeyUpdate \/ KeyRemove \/ SyncSmallPool \/ SyncCycle \/ Reload

Spec == Init /\ [][Next]_vars

(***************************************************************************)
(* SpecIndex: the descriptor indices.  Keys are created under the names of *)
(* IndexNames in order (a name is new, or a tombstone being re-created),   *)
(* and valid keys are removed; the cache is synced, dropped for a new one  *)
(* over the disk state, and asked for the names created so far; for        *)
(* MaxIndexSteps calls.                                                    *)
(***************************************************************************)
IndexData == {<<1>>, <<3, 3, 3>>}
ValidNames == {n \in DOMAIN keys : keys[n].valid}
NextName == IndexNames[Cardinality(DOMAIN keys) + 1]

IndexCreate ==
  /\ Step(MaxIndexSteps)
  /\ \E name \in ((DOMAIN keys \ ValidNames) \cup
                   (IF Cardinality(DOMAIN keys) < Len(IndexNames)
                    THEN {NextName} ELSE {})),
        data \in IndexData :
       KeyUpdateWith(name, data, 0, 0, FALSE, "debug")

IndexRemove ==
  /\ Step(MaxIndexSteps)
  /\ \E name \in ValidNames : KeyRemoveWith(name, FALSE)

IndexSync == Step(MaxIndexSteps) /\ SyncCycleCall

IndexNew == Step(MaxIndexSteps) /\ NewCall

IndexEnsure ==
  /\ Step(MaxIndexSteps)
  /\ \E i \in 1 .. Len(IndexNames) : i <= key_count /\ EnsureCall(IndexNames[i])

NextIndex == IndexCreate \/ IndexRemove \/ IndexSync \/ IndexNew \/ IndexEnsure

SpecIndex == Init /\ [][NextIndex]_vars

(***************************************************************************)
(* SpecCreate: writes and removals of two names with every length, offset  *)
(* and hint, MaxCreateSteps calls; the creations of key_update.            *)
(***************************************************************************)
CreateUpdate ==
  /\ Step(MaxCreateSteps)
  /\ \E name \in Names, data \in DataSet, offset \in Offsets, alloc_hint \in Hints :
       KeyUpdateWith(name, data, offset, alloc_hint, FALSE, "debug")

CreateRemove ==
  /\ Step(MaxCreateSteps)
  /\ \E name \in Names : KeyRemoveWith(name, FALSE)

NextCreate == CreateUpdate \/ CreateRemove

SpecCreate == Init /\ [][NextCreate]_vars

(***************************************************************************)
(* SpecRound: one key written, synced and loaded into a new cache, for     *)
(* MaxRoundSteps calls.                                                     *)
(***************************************************************************)
RoundData == {<<1>>, <<2, 2>>, <<4, 4, 4, 4, 4>>}
RoundHints == {0, 2}

RoundUpdate ==
  /\ Step(MaxRoundSteps)
  /\ \E data \in RoundData, alloc_hint \in RoundHints :
       KeyUpdateWith("a", data, 0, alloc_hint, FALSE, "debug")

RoundRemove == Step(MaxRoundSteps) /\ KeyRemoveWith("a", FALSE)

RoundSync == Step(MaxRoundSteps) /\ SyncCycleCall

RoundReload == Step(MaxRoundSteps) /\ ReloadCall

NextRound == RoundUpdate \/ RoundRemove \/ RoundSync \/ RoundReload

SpecRound == Init /\ [][NextRound]_vars

(***************************************************************************)
(* SpecHeap: get_free_key_index and put_free_key_index called in any order *)
(* with any index, for MaxHeapSteps calls.  op.offset carries the index    *)
(* taken or put back.                                                      *)
(***************************************************************************)
HeapGet ==
  /\ Step(MaxHeapSteps)
  /\ \E g \in {get_free_key_index(free_keys, last_disk_key_index)} :
        /\ free_keys' = g.free_keys
        /\ last_disk_key_index' = g.last_disk_key_index
        /\ op' = Call("get_free_key_index", "", << >>, g.di, 0, FALSE, FALSE,
                      IF g.di = 0 THEN "None" ELSE "Some")
  /\ UNCHANGED <<keys, key_count, clean, age, small_pool, small_pool_free,
                 device, large_alloc_ptr, dict_hdr, panicked, plaintext_cache,
                 pt_disk>>

HeapPut ==
  /\ Step(MaxHeapSteps)
  /\ \E index \in 1 .. KEY_MAXCOUNT :
       \E p \in {put_free_key_index(free_keys, index)} :
          /\ free_keys' = p.free_keys
          /\ panicked' = p.panicked
          /\ op' = Call("put_free_key_index", "", << >>, index, 0, FALSE, FALSE,
                        IF p.panicked THEN "panic" ELSE "Ok")
  /\ UNCHANGED <<keys, key_count, last_disk_key_index, clean, age, small_pool,
                 small_pool_free, device, large_alloc_ptr, dict_hdr, plaintext_cache,
                 pt_disk>>

NextHeap == HeapGet \/ HeapPut

SpecHeap == Init /\ [][NextHeap]_vars

(***************************************************************************)
(* SpecFill: a cache that is written, synced, dropped for a new one over   *)
(* the disk state, and populated lazily by ensure_key_entry, fill and      *)
(* key_list, for MaxFillSteps calls.                                       *)
(***************************************************************************)
FillData == {<<2, 2>>, <<3, 3, 3>>}

FillUpdate ==
  /\ Step(MaxFillSteps)
  /\ \E name \in Names, data \in FillData :
       KeyUpdateWith(name, data, 0, 0, FALSE, "debug")

FillRemove ==
  /\ Step(MaxFillSteps)
  /\ \E name \in Names : KeyRemoveWith(name, FALSE)

FillSync == Step(MaxFillSteps) /\ SyncCycleCall

FillNew == Step(MaxFillSteps) /\ NewCall

FillFill == Step(MaxFillSteps) /\ FillCall

FillEnsure == Step(MaxFillSteps) /\ \E name \in Names : EnsureCall(name)

FillKeyList == Step(MaxFillSteps) /\ KeyListCall

NextFill ==
  FillUpdate \/ FillRemove \/ FillSync \/ FillNew \/ FillFill \/ FillEnsure \/ FillKeyList

SpecFill == Init /\ [][NextFill]_vars

(***************************************************************************)
(* SpecSkip: two names created small, removed, synced, reloaded with new   *)
(* and scanned by fill and ensure_key_entry, for MaxSkipSteps calls: long  *)
(* enough for a sync that leaves a descriptor page unwritten below a       *)
(* written one, followed by a reload and a scan.                           *)
(***************************************************************************)
SkipNames == {"a", "b"}

SkipUpdate ==
  /\ Step(MaxSkipSteps)
  /\ \E name \in SkipNames : KeyUpdateWith(name, <<2, 2>>, 0, 0, FALSE, "debug")

SkipRemove ==
  /\ Step(MaxSkipSteps)
  /\ \E name \in SkipNames : KeyRemoveWith(name, FALSE)

SkipSync == Step(MaxSkipSteps) /\ SyncCycleCall

SkipNew == Step(MaxSkipSteps) /\ NewCall

SkipFill == Step(MaxSkipSteps) /\ FillCall

SkipEnsure == Step(MaxSkipSteps) /\ \E name \in SkipNames : EnsureCall(name)

NextSkip ==
  SkipUpdate \/ SkipRemove \/ SkipSync \/ SkipNew \/ SkipFill \/ SkipEnsure

SpecSkip == Init /\ [][NextSkip]_vars

(***************************************************************************)
(* SpecExtent: one name written without truncate at aligned and unaligned  *)
(* offsets below and above VPAGE_SIZE, with reservations of up to three    *)
(* pages, and removed, for MaxExtentSteps calls.                           *)
(***************************************************************************)
ExtentData == {<<1>>, <<2, 3>>, <<4, 5, 6, 7, 8>>}
ExtentOffsets == {0, 1, VPAGE_SIZE, VPAGE_SIZE + 1, VPAGE_SIZE + 2}
ExtentHints == {0, 3 * VPAGE_SIZE}

ExtentUpdate ==
  /\ Step(MaxExtentSteps)
  /\ \E data \in ExtentData, offset \in ExtentOffsets, alloc_hint \in ExtentHints :
       KeyUpdateWith("a", data, offset, alloc_hint, FALSE, "debug")

ExtentRemove == Step(MaxExtentSteps) /\ KeyRemoveWith("a", FALSE)

NextExtent == ExtentUpdate \/ ExtentRemove

SpecExtent == Init /\ [][NextExtent]_vars

(***************************************************************************)
(* SpecPool: small keys of one and two bytes created under the names of    *)
(* IndexNames in order, and sync_small_pool, for MaxPoolSteps calls.       *)
(***************************************************************************)
PoolData == {<<1>>, <<2, 2>>}

PoolCreate ==
  /\ Step(MaxPoolSteps)
  /\ Cardinality(DOMAIN keys) < Len(IndexNames)
  /\ \E data \in PoolData : KeyUpdateWith(NextName, data, 0, 0, FALSE, "debug")

PoolSync == Step(MaxPoolSteps) /\ SyncSmallPoolCall

NextPool == PoolCreate \/ PoolSync

SpecPool == Init /\ [][NextPool]_vars

(***************************************************************************)
(* SpecCache: one PlaintextCache that is filled for descriptor, small-pool *)
(* and large-pool addresses while keys are written, removed and synced,    *)
(* for MaxCacheSteps calls.                                                *)
(***************************************************************************)
CacheVaddrs ==
  {DescVaddr(1), PoolVaddr(0), LARGE_POOL_START, LARGE_POOL_START + VPAGE_SIZE}

CacheFill ==
  /\ Step(MaxCacheSteps)
  /\ \E req_vaddr \in CacheVaddrs :
       \E r \in {PlaintextCacheFill(plaintext_cache, v2p, pages, req_vaddr)} :
          /\ plaintext_cache' = r.c
          /\ op' = [Call("PlaintextCache::fill", "", << >>, req_vaddr, 0, FALSE, FALSE, "Ok")
                      EXCEPT !.hw = r.hw]
  /\ UNCHANGED <<cache, device, large_alloc_ptr, dict_hdr, panicked, pt_disk>>

CacheUpdate ==
  /\ Step(MaxCacheSteps)
  /\ \E name \in Names, data \in {<<1>>, <<3, 3, 3>>} :
       KeyUpdateWith(name, data, 0, 0, FALSE, "debug")

CacheRemove ==
  /\ Step(MaxCacheSteps)
  /\ \E name \in ValidNames : KeyRemoveWith(name, FALSE)

CacheSync == Step(MaxCacheSteps) /\ SyncCycleCall

NextCache == CacheFill \/ CacheUpdate \/ CacheRemove \/ CacheSync

SpecCache == Init /\ [][NextCache]_vars

(***************************************************************************)
(* SpecCrash: small keys whose bytes name their key are written and        *)
(* removed; the caller drives the persistence order one step at a time     *)
(* (sync_small_pool, descriptor-page sync, page-table sync, the last one   *)
(* writing the V2P map to pt_disk); a crash drops the cache and the        *)
(* in-memory V2P map, and a fresh cache is filled from what the disk       *)
(* holds.  MaxCrashSteps steps; nothing follows the recovery.              *)
(***************************************************************************)
ByteOf(name) == IF name = "a" THEN 1 ELSE 2

CrashUpdate ==
  /\ Step(MaxCrashSteps) /\ op.call # "recover"
  /\ \E name \in Names, l \in 1 .. 2 :
       KeyUpdateWith(name, Fill(ByteOf(name), l), 0, 0, FALSE, "debug")

CrashRemove ==
  /\ Step(MaxCrashSteps) /\ op.call # "recover"
  /\ \E name \in ValidNames : KeyRemoveWith(name, FALSE)

CrashSyncSmallPool ==
  /\ Step(MaxCrashSteps) /\ op.call \in {"key_update", "key_remove"}
  /\ SyncSmallPoolCall

CrashDictSync ==
  /\ Step(MaxCrashSteps) /\ op.call = "sync_small_pool"
  /\ \E r \in {dict_sync(Cur)} :
        /\ Becomes(r)
        /\ dict_hdr' = IF r.panicked THEN dict_hdr ELSE HeaderOf(r)
        /\ op' = Call("dict_sync", "", << >>, 0, 0, FALSE, FALSE, r.ret)
        /\ UNCHANGED large_alloc_ptr

CrashPtSync ==
  /\ Step(MaxCrashSteps) /\ op.call = "dict_sync"
  /\ pt_disk' = v2p
  /\ op' = Call("pt_sync", "", << >>, 0, 0, FALSE, FALSE, "Ok")
  /\ UNCHANGED <<cache, device, large_alloc_ptr, dict_hdr, panicked, plaintext_cache>>

\* the crash and the recovery: a new cache over the persisted header and
\* page table, filled
CrashRecover ==
  /\ Step(MaxCrashSteps) /\ op.call # "recover"
  /\ \E r \in {fill(new([Cur EXCEPT !.v2p = pt_disk], dict_hdr))} :
        /\ Becomes(r)
        /\ large_alloc_ptr' = IF r.panicked THEN large_alloc_ptr ELSE r.lap
        /\ op' = Call("recover", "", << >>, 0, 0, FALSE, FALSE, r.ret)
        /\ UNCHANGED dict_hdr

NextCrash ==
  \/ CrashUpdate \/ CrashRemove \/ CrashSyncSmallPool \/ CrashDictSync
  \/ CrashPtSync \/ CrashRecover

SpecCrash == Init /\ [][NextCrash]_vars

(***************************************************************************)
(* SpecSlot: small keys of zero, one and two bytes under up to SlotNames   *)
(* names taken in order, removals of valid keys, sync_small_pool and       *)
(* alloc_estimate_small, for MaxSlotSteps calls.                           *)
(***************************************************************************)
SlotData == {<< >>, <<1>>, <<2, 2>>}

SlotUpdate ==
  /\ Step(MaxSlotSteps)
  /\ \E name \in (DOMAIN keys \cup
                   (IF Cardinality(DOMAIN keys) < SlotNames THEN {NextName} ELSE {})),
        data \in SlotData :
       KeyUpdateWith(name, data, 0, 0, FALSE, "debug")

SlotRemove ==
  /\ Step(MaxSlotSteps)
  /\ \E name \in ValidNames : KeyRemoveWith(name, FALSE)

SlotSync == Step(MaxSlotSteps) /\ SyncSmallPoolCall

SlotEstimate == Step(MaxSlotSteps) /\ EstimateCall("debug")

NextSlot == SlotUpdate \/ SlotRemove \/ SlotSync \/ SlotEstimate

SpecSlot == Init /\ [][NextSlot]_vars

(***************************************************************************)
(* SpecSpace: a device whose fastspace holds FreePages free pages, the     *)
(* caller having reserved none, for MaxSpaceSteps calls.                   *)
(***************************************************************************)
InitSpace ==
  /\ keys = << >>
  /\ key_count = DefaultDictionary.num_keys
  /\ free_keys = {FreeKeyRange(DefaultDictionary.free_key_index, KEY_MAXCOUNT - 1)}
  /\ last_disk_key_index = DefaultDictionary.free_key_index
  /\ clean = TRUE
  /\ age = DefaultDictionary.age
  /\ small_pool = << >>
  /\ small_pool_free = {}
  /\ v2p = << >>
  /\ pages = [pp \in PhysPages |-> NoPage]
  /\ fastspace = [pp \in PhysPages |-> IF pp <= FreePages THEN 1 ELSE 0]
  /\ large_alloc_ptr = LARGE_POOL_START
  /\ dict_hdr = DefaultDictionary
  /\ panicked = FALSE
  /\ op = Call("new", "", << >>, 0, 0, FALSE, FALSE, "Ok")
  /\ steps = 0
  /\ plaintext_cache = NewPlaintextCache
  /\ pt_disk = << >>

SpaceData == {<<1>>, <<3, 3, 3>>, <<4, 4, 4, 4, 4>>}

SpaceUpdate ==
  /\ Step(MaxSpaceSteps)
  /\ \E name \in Names, data \in SpaceData, alloc_hint \in Hints :
       KeyUpdateWith(name, data, 0, alloc_hint, FALSE, "debug")

SpaceRemove ==
  /\ Step(MaxSpaceSteps)
  /\ \E name \in Names : KeyRemoveWith(name, FALSE)

SpaceSync == Step(MaxSpaceSteps) /\ SyncSmallPoolCall

NextSpace == SpaceUpdate \/ SpaceRemove \/ SpaceSync

SpecSpace == InitSpace /\ [][NextSpace]_vars

(***************************************************************************)
(* What the claims speak of.                                               *)
(***************************************************************************)
\* the bytes of the pages of [a, end); a page that is unmapped or was never
\* written reads as bytes of value -1
RECURSIVE ExtentBytes(_, _, _, _)
ExtentBytes(map, pgs, a, end) ==
  IF a >= end THEN << >>
  ELSE (IF a \in DOMAIN map /\ pgs[map[a]].t = "data"
        THEN pgs[map[a]].bytes ELSE Fill(0 - 1, VPAGE_SIZE))
       \o ExtentBytes(map, pgs, a + VPAGE_SIZE, end)

\* the body of a key: the in-RAM body of a small key, the first len bytes of
\* the extent of a large one
BodyIn(ks, map, pgs, name) ==
  IF ks[name].data.some THEN ks[name].data.data
  ELSE Take(ExtentBytes(map, pgs, ks[name].start, ks[name].start + ks[name].reserved),
            ks[name].len)

IsLarge(kc) == kc.start >= SMALL_POOL_END

\* the sum of reserved over the cached keys that a slot's contents list
RECURSIVE ReservedOf(_, _)
ReservedOf(contents, k) ==
  IF k > Len(contents) THEN 0
  ELSE (IF contents[k] \in DOMAIN keys THEN keys[contents[k]].reserved ELSE 0)
       + ReservedOf(contents, k + 1)

\* some descriptor slot on disk has the valid flag set and carries the name
OnDiskValid(name) ==
  \E i \in 1 .. KEY_MAXCOUNT :
     /\ ReadDescPage(Cur, i).t = "desc"
     /\ ReadDescPage(Cur, i).desc[(i % DK_PER_VPAGE) + 1].valid
     /\ ReadDescPage(Cur, i).desc[(i % DK_PER_VPAGE) + 1].name = name

(***************************************************************************)
(* C1.  After a full sync cycle, a fill into a new DictCacheEntry over the *)
(* disk state gives the keys that were valid before it, each with the body *)
(* it had.                                                                 *)
(***************************************************************************)
C1_RoundTrip ==
  [][op'.call = "reload" =>
       /\ ~panicked'
       /\ {n \in DOMAIN keys' : keys'[n].valid} = ValidNames
       /\ \A n \in ValidNames :
            n \in DOMAIN keys'
            /\ BodyIn(keys', v2p', pages', n) = BodyIn(keys, v2p, pages, n)]_vars

(***************************************************************************)
(* C2.  A second key_remove of the key just removed does not panic and     *)
(* leaves keys, small_pool, small_pool_free, free_keys, key_count and the  *)
(* V2P map as the first left them.                                         *)
(***************************************************************************)
C2_RemoveTwice ==
  [][(/\ op.call = "key_remove" /\ op.name \in DOMAIN keys
      /\ op'.call = "key_remove" /\ op'.name = op.name) =>
       /\ ~panicked'
       /\ UNCHANGED <<keys, small_pool, small_pool_free, free_keys, key_count, v2p>>]_vars

(***************************************************************************)
(* C3.  A key_update at offset 0 of an existing key with data that fits    *)
(* its reservation leaves the body equal to the data and the               *)
(* descriptor_index as it was.  Stated for the calls that set truncate,    *)
(* the calls that ask for the data to become the whole body.               *)
(***************************************************************************)
C3_PutOverPut ==
  [][(/\ op'.call = "key_update" /\ op'.offset = 0 /\ op'.truncate
      /\ op'.name \in ValidNames
      /\ Len(op'.data) <= keys[op'.name].reserved) =>
       /\ ~panicked'
       /\ op'.name \in DOMAIN keys'
       /\ BodyIn(keys', v2p', pages', op'.name) = op'.data
       /\ keys'[op'.name].descriptor_index = keys[op'.name].descriptor_index]_vars

(***************************************************************************)
(* C4.  From a new dictionary the first KEY_MAXCOUNT creations succeed and *)
(* the next one fails with the out-of-index error, leaving keys,           *)
(* key_count, small_pool, small_pool_free and free_keys as they were.      *)
(***************************************************************************)
OnlyCreations ==
  /\ steps = key_count
  /\ Cardinality(DOMAIN keys) = key_count
  /\ ValidNames = DOMAIN keys

C4_Exhaustion ==
  [][(op'.call = "key_update" /\ OnlyCreations /\ op'.name \notin DOMAIN keys) =>
       IF key_count < KEY_MAXCOUNT
       THEN op'.ret = "Ok"
       ELSE /\ op'.ret = "OutOfIndex"
            /\ UNCHANGED <<keys, key_count, small_pool, small_pool_free, free_keys>>]_vars

(***************************************************************************)
(* C5.  A key_update of an existing large key at offset 0 with truncate    *)
(* set leaves reserved equal to the data length rounded up to whole pages. *)
(***************************************************************************)
C5_Truncate ==
  [][(/\ op'.call = "key_update" /\ op'.truncate /\ op'.offset = 0
      /\ op'.name \in ValidNames
      /\ IsLarge(keys[op'.name])
      /\ Len(op'.data) <= keys[op'.name].reserved) =>
       /\ ~panicked'
       /\ keys'[op'.name].reserved = PageAlignedVa(Len(op'.data))]_vars

(***************************************************************************)
(* C6.  A key_update of an existing key with more data than its            *)
(* reservation ends with the key valid, reserved at least the data's end,  *)
(* the data in the body and, when the old key was large, the pages of the  *)
(* old extent out of the V2P map and back in fastspace.  Stated for the    *)
(* calls at offset 0 that do not truncate.                                 *)
(***************************************************************************)
C6_Growth ==
  [][(/\ op'.call = "key_update" /\ op'.offset = 0 /\ ~op'.truncate
      /\ op'.name \in ValidNames
      /\ Len(op'.data) + op'.offset > keys[op'.name].reserved) =>
       /\ ~panicked'
       /\ op'.name \in DOMAIN keys'
       /\ keys'[op'.name].valid
       /\ keys'[op'.name].reserved >= Len(op'.data) + op'.offset
       /\ Drop(BodyIn(keys', v2p', pages', op'.name), op'.offset) = op'.data
       /\ IsLarge(keys[op'.name]) =>
            \A a \in large_pool_vpages(keys[op'.name]) \cap DOMAIN v2p :
               /\ a \notin DOMAIN v2p'
               /\ fastspace'[v2p[a]] > 0 \/ v2p[a] \in Range(v2p')]_vars

(***************************************************************************)
(* C7.  Between public calls every small-pool slot has: the sum of         *)
(* reserved over the cached keys its contents list, plus its avail, equal  *)
(* to SMALL_CAPACITY.                                                      *)
(***************************************************************************)
C7_SlotSum ==
  ~panicked =>
    \A i \in 1 .. Len(small_pool) :
       ReservedOf(small_pool[i].contents, 1) + small_pool[i].avail = SMALL_CAPACITY

(***************************************************************************)
(* C8.  Between public calls the descriptor_index values of the entries of *)
(* keys are pairwise distinct, lie in 1..KEY_MAXCOUNT, and none is covered *)
(* by a range of free_keys.  Stated for the valid entries: an index that   *)
(* free_keys covers is handed to the next key created.                     *)
(***************************************************************************)
C8_IndexDisjoint ==
  ~panicked =>
    /\ \A n1, n2 \in ValidNames :
         n1 # n2 => keys[n1].descriptor_index # keys[n2].descriptor_index
    /\ \A n \in ValidNames :
         /\ keys[n].descriptor_index \in 1 .. KEY_MAXCOUNT
         /\ keys[n].descriptor_index \notin FreeIndices(free_keys)

(***************************************************************************)
(* C9.  No two ranges of free_keys overlap or touch: for ranges a and b    *)
(* with a.start < b.start, a.start + a.run + 1 < b.start.                  *)
(***************************************************************************)
C9_RangesApart ==
  \A a, b \in free_keys :
     a.start < b.start => a.start + a.run + 1 < b.start

\* indices have been taken and one that is next to no range has been put
\* back, into a heap that held a range
C9_Witness ==
  /\ op.call = "put_free_key_index" /\ op.ret = "Ok"
  /\ steps >= 4
  /\ \E r \in free_keys : r.start = op.offset /\ r.run = 0

SlotsToMap ==
  {i \in 1 .. Len(small_pool) :
     ~small_pool[i].clean /\ PoolVaddr(i - 1) \notin DOMAIN v2p}

C11_OutOfDiskSpace ==
  [][/\ (/\ op'.call = "key_update"
         /\ ~ensure_key_entry(Cur, op'.name).found
         /\ ~FitsSmallPool(op'.data, op'.offset, op'.alloc_hint)
         /\ free_keys # {}
         /\ Cardinality(FastSpaceFree(fastspace)) * VPAGE_SIZE
              < PageAlignedVa(Reservation(op'.data, op'.offset, op'.alloc_hint))) =>
          (~panicked' /\ op'.ret = "OutOfDiskSpace")
     /\ (/\ op'.call = "sync_small_pool"
         /\ SlotsToMap # {}
         /\ FastSpaceFree(fastspace) = {}) =>
          ~panicked']_vars

(***************************************************************************)
(* C12.  key_remove of a name that is neither in the cache nor valid on    *)
(* disk returns without panic and leaves keys, key_count, small_pool,      *)
(* small_pool_free, free_keys, last_disk_key_index, clean, age and the V2P *)
(* map unchanged.                                                          *)
(***************************************************************************)
C12_RemoveUnknown ==
  [][(/\ op'.call = "key_remove"
      /\ op'.name \notin DOMAIN keys
      /\ ~OnDiskValid(op'.name)) =>
       /\ ~panicked' /\ op'.ret = "Ok"
       /\ UNCHANGED <<keys, key_count, small_pool, small_pool_free, free_keys,
                      last_disk_key_index, clean, age, v2p>>]_vars

\* an unknown name has been removed from a clean cache whose disk holds the
\* valid descriptor of another key, which the scan read
C12_Witness ==
  /\ op.call = "key_remove" /\ op.ret = "Ok" /\ ~panicked
  /\ op.name \notin DOMAIN keys
  /\ ~OnDiskValid(op.name)
  /\ clean
  /\ \E n \in ValidNames : OnDiskValid(n)

(***************************************************************************)
(* C13.  A key_remove of a valid key leaves its entry in keys with the     *)
(* valid flag cleared.  While the tombstone is in the cache,               *)
(* ensure_key_entry of its name returns false and reads nothing from disk, *)
(* fill and key_list leave the entry as it is, and key_contains and the    *)
(* list of key_list still have the name.                                   *)
(***************************************************************************)
Tombstones == DOMAIN keys \ ValidNames

C13_Tombstone ==
  [][/\ (op'.call = "key_remove" /\ op'.name \in ValidNames /\ ~panicked') =>
          (op'.name \in DOMAIN keys' /\ ~keys'[op'.name].valid)
     /\ (op'.call \in {"fill", "key_list", "ensure_key_entry"}) =>
          \A n \in Tombstones :
             /\ key_contains(Cur', n)
             /\ keys'[n] = keys[n]
     /\ (op'.call = "ensure_key_entry" /\ op'.name \in Tombstones) =>
          /\ op'.ret = "false"
          /\ UNCHANGED <<cache, device>>]_vars

\* ensure_key_entry has returned false for a tombstone whose descriptor is
\* still valid on disk
C13_Witness ==
  /\ op.call = "ensure_key_entry" /\ op.ret = "false"
  /\ op.name \in Tombstones
  /\ OnDiskValid(op.name)

(***************************************************************************)
(* C14.  For a name that is not in the cache, an ensure_key_entry that     *)
(* returns gives true, with the entry inserted, exactly when a descriptor  *)
(* slot on disk has the valid flag set and carries the name; and           *)
(* last_disk_key_index is at least every descriptor index that is valid on *)
(* disk.                                                                   *)
(***************************************************************************)
C14_EnsureFinds ==
  [][(op'.call = "ensure_key_entry" /\ op'.name \notin DOMAIN keys) =>
       /\ ~panicked' => ((op'.ret = "true") <=> OnDiskValid(op'.name))
       /\ (op'.name \in DOMAIN keys') <=> (op'.ret = "true")
       /\ \A i \in 1 .. KEY_MAXCOUNT :
            (/\ ReadDescPage(Cur, i).t = "desc"
             /\ ReadDescPage(Cur, i).desc[(i % DK_PER_VPAGE) + 1].valid) =>
               last_disk_key_index >= i]_vars

(***************************************************************************)
(* C20.  fill leaves every entry that is in keys before the call as it is, *)
(* and in the small-pool slots that listed it: it only adds entries.       *)
(***************************************************************************)
Listing(sp, n) ==
  {<<i, k>> \in (1 .. Len(sp)) \X (1 .. SMALL_CAPACITY + KEY_MAXCOUNT) :
     k <= Len(sp[i].contents) /\ sp[i].contents[k] = n}

C20_FillKeeps ==
  [][(op'.call = "fill") =>
       \A n \in DOMAIN keys :
          /\ n \in DOMAIN keys'
          /\ keys'[n] = keys[n]
          /\ Listing(small_pool', n) = Listing(small_pool, n)]_vars

\* fill has added an entry to a cache that held a dirty entry whose
\* descriptor on disk is valid
C20_Witness ==
  /\ op.call = "fill" /\ op.ret = "Ok" /\ ~panicked
  /\ op.offset > 0
  /\ \E n \in DOMAIN keys : ~keys[n].clean /\ OnDiskValid(n)

(***************************************************************************)
(* C15.  After any sequence of key_update and key_remove calls that thread *)
(* the returned large_alloc_ptr, the extents [start, start + reserved) of  *)
(* the valid large keys start and end on page boundaries and no two of     *)
(* them overlap.                                                           *)
(***************************************************************************)
LargeKeys == {n \in DOMAIN keys : keys[n].valid /\ IsLarge(keys[n])}

C15_LargeDisjoint ==
  ~panicked =>
    /\ \A n \in LargeKeys :
         keys[n].start % VPAGE_SIZE = 0 /\ keys[n].reserved % VPAGE_SIZE = 0
    /\ \A n, k \in LargeKeys :
         n # k => \/ keys[n].start + keys[n].reserved <= keys[k].start
                  \/ keys[k].start + keys[k].reserved <= keys[n].start

(***************************************************************************)
(* C16.  Between public calls every valid entry of keys has reserved >=    *)
(* len, and every valid small key has reserved <= SMALL_CAPACITY.          *)
(***************************************************************************)
C16_ReservedBounds ==
  ~panicked =>
    \A n \in DOMAIN keys :
      keys[n].valid =>
        /\ keys[n].reserved >= keys[n].len
        /\ ~IsLarge(keys[n]) => keys[n].reserved <= SMALL_CAPACITY

\* a small key that was written at an offset inside a hinted reservation
\* larger than its length, beside a large key, after a sync_small_pool
C16_Witness ==
  /\ ~panicked /\ op.call = "sync_small_pool"
  /\ \E n \in DOMAIN keys :
       /\ keys[n].valid /\ ~IsLarge(keys[n])
       /\ keys[n].len > 0 /\ keys[n].reserved > keys[n].len
  /\ \E n \in DOMAIN keys : keys[n].valid /\ IsLarge(keys[n])

(***************************************************************************)
(* C17.  Between public calls every valid small key is listed in the       *)
(* contents of exactly one small-pool slot, once, and that slot is the one *)
(* whose index small_storage_index_from_key derives from the key's start   *)
(* address and reservation.                                                *)
(***************************************************************************)
C17_OneSlot ==
  ~panicked =>
    \A n \in ValidNames :
      ~IsLarge(keys[n]) =>
        /\ Cardinality(Listing(small_pool, n)) = 1
        /\ \A e \in Listing(small_pool, n) :
             e[1] = small_storage_index_from_key(keys[n], DictIndex) + 1

(***************************************************************************)
(* C18.  The value alloc_estimate_small returns is at least the number of  *)
(* physical pages that a sync_small_pool called in the same state takes    *)
(* from fastspace: one per dirty slot whose pool address has no mapping.   *)
(***************************************************************************)
PagesTaken(m) ==
  Cardinality(FastSpaceFree(m.fastspace))
    - Cardinality(FastSpaceFree(sync_small_pool(m).fastspace))

C18_EstimateCovers ==
  (op.call = "alloc_estimate_small" /\ ~panicked) =>
     /\ PagesTaken(Cur) = Cardinality(SlotsToMap)
     /\ op.offset >= PagesTaken(Cur)

(***************************************************************************)
(* C19.  A key_remove of a valid large key leaves no page of               *)
(* [start, start + reserved) in the V2P map and returns each physical page *)
(* that was mapped there to fastspace exactly once; when paranoid, each of *)
(* these pages is overwritten before it is returned and never after.       *)
(***************************************************************************)
\* the physical pages mapped in the extent of the key
ExtentPages(kc) == {v2p[a] : a \in large_pool_vpages(kc) \cap DOMAIN v2p}

\* the positions of the call's hardware events of one kind on one page
HwEvents(hw, kind, pp) == {i \in 1 .. Len(hw) : hw[i] = <<kind, pp>>}

C19_LargeRemove ==
  [][(/\ op'.call = "key_remove" /\ ~panicked'
      /\ op'.name \in ValidNames /\ IsLarge(keys[op'.name])) =>
       /\ large_pool_vpages(keys[op'.name]) \cap DOMAIN v2p' = {}
       /\ \A pp \in PhysPages :
            /\ fastspace'[pp] = fastspace[pp]
                 + (IF pp \in ExtentPages(keys[op'.name]) THEN 1 ELSE 0)
            /\ Cardinality(HwEvents(op'.hw, "fast_space_free", pp))
                 = (IF pp \in ExtentPages(keys[op'.name]) THEN 1 ELSE 0)
       /\ op'.paranoid =>
            \A pp \in ExtentPages(keys[op'.name]) :
               /\ HwEvents(op'.hw, "patch_data", pp) # {}
               /\ \A i \in HwEvents(op'.hw, "patch_data", pp),
                     j \in HwEvents(op'.hw, "fast_space_free", pp) : i < j
               /\ pages'[pp] = NoPage]_vars

\* a paranoid key_remove has overwritten and returned the two pages of a
\* large key
C19_Witness ==
  /\ op.call = "key_remove" /\ op.paranoid /\ ~panicked
  /\ Len(op.hw) = 4
  /\ op.name \in DOMAIN keys /\ ~keys[op.name].valid /\ IsLarge(keys[op.name])
  /\ large_pool_vpages(keys[op.name]) \cap DOMAIN v2p = {}

(***************************************************************************)
(* C21.  Two consecutive PlaintextCache fills for the same mapped virtual  *)
(* page decrypt at most once between them; a fill for an address without a *)
(* V2P mapping leaves data and tag both None; and the cache never holds    *)
(* data without a tag.                                                     *)
(***************************************************************************)
C21_PlaintextCache ==
  [][/\ (/\ op.call = "PlaintextCache::fill" /\ op'.call = "PlaintextCache::fill"
         /\ op'.offset = op.offset /\ op'.offset \in DOMAIN v2p) =>
           Len(op.hw) + Len(op'.hw) <= 1
     /\ (op'.call = "PlaintextCache::fill" /\ op'.offset \notin DOMAIN v2p) =>
           (~plaintext_cache'.some /\ plaintext_cache'.tag = 0)
     /\ plaintext_cache'.some => plaintext_cache'.tag # 0]_vars

\* the second of two fills for the same mapped page found the page cached
C21_Witness ==
  /\ op.call = "PlaintextCache::fill" /\ op.hw = << >>
  /\ op.offset \in DOMAIN v2p
  /\ plaintext_cache.some /\ plaintext_cache.tag = v2p[op.offset]

(***************************************************************************)
(* C22.  After a crash at any point of the persistence order, a fresh fill *)
(* that completes gives every small key it loads from a valid descriptor a *)
(* body that was written for that key: one or two bytes, each the key's    *)
(* own byte, never another key's bytes and never zeros.                    *)
(***************************************************************************)
C22_Recoverable ==
  (op.call = "recover" /\ ~panicked) =>
    \A n \in DOMAIN keys :
       keys[n].data.some =>
         keys[n].data.data \in {Fill(ByteOf(n), l) : l \in 1 .. 2}

(***************************************************************************)
(* C23.  For free_keys of ranges that neither overlap nor touch and an     *)
(* index that is not free, put_free_key_index(index) returns and leaves    *)
(* free_keys covering the indices that were free before and index, and no  *)
(* others.                                                                 *)
(***************************************************************************)
C23_PutCovers ==
  [][(/\ op'.call = "put_free_key_index"
      /\ op'.offset \notin FreeIndices(free_keys)
      /\ \A a, b \in free_keys : a.start < b.start => a.start + a.run + 1 < b.start) =>
       /\ ~panicked'
       /\ FreeIndices(free_keys') = FreeIndices(free_keys) \cup {op'.offset}]_vars

(***************************************************************************)
(* C24.  The descriptor index a key_update gives a key it creates is the   *)
(* smallest index free_keys covers, and exactly that index leaves the free *)
(* set; so a creation of a new name that follows a key_remove gets the     *)
(* descriptor index of the key that was removed.                           *)
(***************************************************************************)
C24_SmallestFirst ==
  [][(/\ op'.call = "key_update" /\ op'.ret = "Ok" /\ ~panicked'
      /\ ~ensure_key_entry(Cur, op'.name).found) =>
       /\ free_keys # {}
       /\ \A i \in FreeIndices(free_keys) : keys'[op'.name].descriptor_index <= i
       /\ FreeIndices(free_keys')
            = FreeIndices(free_keys) \ {keys'[op'.name].descriptor_index}
       /\ (/\ op.call = "key_remove" /\ op.ret = "Ok"
           /\ op.name \in DOMAIN keys /\ op'.name \notin DOMAIN keys) =>
            keys'[op'.name].descriptor_index = keys[op.name].descriptor_index]_vars

\* x and y were created, x removed, and the new key z has x's index
C24_Witness ==
  /\ op.call = "key_update" /\ op.ret = "Ok" /\ steps = 4
  /\ DOMAIN keys = {"a", "b", "c"} /\ op.name = "c"
  /\ ~keys["a"].valid /\ keys["b"].valid
  /\ keys["c"].descriptor_index = keys["a"].descriptor_index

(***************************************************************************)
(* C25.  put_free_key_index(index) panics exactly when some range of       *)
(* free_keys already covers index.                                         *)
(***************************************************************************)
C25_DoubleFree ==
  [][op'.call = "put_free_key_index" =>
       (panicked' <=> op'.offset \in FreeIndices(free_keys))]_vars


(***************************************************************************)
(* C26: a key_update that creates a key fails with the out-of-index error  *)
(* only if every descriptor index of 1 .. KEY_MAXCOUNT is held by a valid  *)
(* key, and the creation that follows the removal of a valid key does not  *)
(* fail with it.                                                           *)
(***************************************************************************)
HeldIndices == {keys[n].descriptor_index : n \in ValidNames}

C26_IndexExhaustion ==
  [][/\ (op'.call = "key_update" /\ op'.ret = "OutOfIndex")
          => (1 .. KEY_MAXCOUNT) \subseteq HeldIndices
     /\ (op.call = "key_remove" /\ op.ret = "Ok" /\ op'.call = "key_update"
           /\ ~ensure_key_entry(Cur, op'.name).found)
          => op'.ret # "OutOfIndex"]_vars


(***************************************************************************)
(* C27: a key_update with truncate on a large key that holds the write     *)
(* unmaps, and returns to fastspace, exactly the key's own pages that lie  *)
(* at or after the page-rounded end of the write; every other mapping is   *)
(* left as it was.                                                         *)
(***************************************************************************)
CutPages(kc, data, offset) ==
  {a \in large_pool_vpages(kc) \cap DOMAIN v2p :
     a >= PageAlignedVa(kc.start + offset + Len(data))}

C27_TruncateFrame ==
  [][(/\ op'.call = "key_update" /\ op'.truncate /\ ~panicked'
      /\ op'.name \in LargeKeys
      /\ keys[op'.name].reserved >= Len(op'.data) + op'.offset)
       => /\ DOMAIN v2p' = DOMAIN v2p \ CutPages(keys[op'.name], op'.data, op'.offset)
          /\ \A a \in DOMAIN v2p' : v2p'[a] = v2p[a]
          /\ \A pp \in PhysPages :
               fastspace'[pp] = fastspace[pp] +
                 (IF \E a \in CutPages(keys[op'.name], op'.data, op'.offset) : v2p[a] = pp
                  THEN 1 ELSE 0)]_vars


(***************************************************************************)
(* C28: a key_update that creates a large key (the name is not found, or   *)
(* is found with too small a reservation, and the write is not admitted to *)
(* the small pool) reserves the page-rounded larger of the hint and the    *)
(* write's end, starts the key at large_alloc_ptr, maps one physical page  *)
(* of its own to every page of the reservation and returns the pointer     *)
(* advanced by the reservation; any other key_update returns the pointer   *)
(* unchanged.                                                              *)
(***************************************************************************)
CreatesLarge(e, name, data, offset, alloc_hint) ==
  /\ ~FitsSmallPool(data, offset, alloc_hint)
  /\ e.found => e.m.keys[name].reserved < Len(data) + offset

LargeCreated(kc, data, offset, alloc_hint) ==
  /\ kc.reserved = PageAlignedVa(Reservation(data, offset, alloc_hint))
  /\ kc.start = large_alloc_ptr
  /\ large_alloc_ptr' = large_alloc_ptr + kc.reserved
  /\ large_pool_vpages(kc) \subseteq DOMAIN v2p'
  /\ \A a, b \in large_pool_vpages(kc) : a # b => v2p'[a] # v2p'[b]
  /\ \A a \in large_pool_vpages(kc) : fastspace'[v2p'[a]] = 0

C28_LargeCreate ==
  [][(op'.call = "key_update" /\ op'.ret = "Ok" /\ ~panicked') =>
       IF CreatesLarge(ensure_key_entry(Cur, op'.name), op'.name, op'.data,
                       op'.offset, op'.alloc_hint)
       THEN LargeCreated(keys'[op'.name], op'.data, op'.offset, op'.alloc_hint)
       ELSE large_alloc_ptr' = large_alloc_ptr]_vars


(***************************************************************************)
(* C29: a key_update without truncate on a large key whose reservation     *)
(* holds the write does not panic, leaves data in the bytes                *)
(* [offset, offset + Len(data)) of the key's extent, and leaves every      *)
(* other byte of the extent that had been written as it was.               *)
(***************************************************************************)
ExtentOf(kc, map, pgs) == ExtentBytes(map, pgs, kc.start, kc.start + kc.reserved)

C29_LargeWrite ==
  [][(/\ op'.call = "key_update" /\ ~op'.truncate
      /\ op'.name \in LargeKeys
      /\ Len(op'.data) + op'.offset <= keys[op'.name].reserved)
       => /\ ~panicked'
          /\ \A i \in 1 .. keys[op'.name].reserved :
               ExtentOf(keys[op'.name], v2p', pages')[i] =
                 IF i > op'.offset /\ i <= op'.offset + Len(op'.data)
                 THEN op'.data[i - op'.offset]
                 ELSE IF ExtentOf(keys[op'.name], v2p, pages)[i] = 0 - 1
                 THEN ExtentOf(keys[op'.name], v2p', pages')[i]
                 ELSE ExtentOf(keys[op'.name], v2p, pages)[i]]_vars


(***************************************************************************)
(* C30: a key_update on a small key whose reservation holds the write puts *)
(* data at offset in the in-RAM body, sets len to the larger of the old    *)
(* len and the write's end, marks the body and the slot dirty, and leaves  *)
(* reserved, descriptor_index, the slot's avail and small_pool_free as     *)
(* they were.                                                              *)
(***************************************************************************)
SlotOf(kc) == small_storage_index_from_key(kc, DictIndex) + 1

SmallWritten(was, now, data, offset) ==
  /\ now.data.some /\ ~now.data.clean
  /\ Len(now.data.data) >= offset + Len(data)
  /\ \A i \in 1 .. Len(data) : now.data.data[offset + i] = data[i]
  /\ now.len = (IF was.len > Len(data) + offset THEN was.len ELSE Len(data) + offset)
  /\ now.reserved = was.reserved
  /\ now.descriptor_index = was.descriptor_index

C30_SmallUpdate ==
  [][(/\ op'.call = "key_update"
      /\ op'.name \in ValidNames
      /\ ~IsLarge(keys[op'.name]) /\ keys[op'.name].data.some
      /\ keys[op'.name].reserved >= Len(op'.data) + op'.offset)
       => /\ ~panicked'
          /\ SmallWritten(keys[op'.name], keys'[op'.name], op'.data, op'.offset)
          /\ ~small_pool'[SlotOf(keys[op'.name])].clean
          /\ small_pool'[SlotOf(keys[op'.name])].avail =
               small_pool[SlotOf(keys[op'.name])].avail
          /\ small_pool_free' = small_pool_free]_vars


(***************************************************************************)
(* C31: when sync_small_pool returns, every slot is clean, and the keys of *)
(* every slot that was dirty are resolved, valid, dirty, with a clean      *)
(* body, and start back-to-back from the slot's pool_vaddr in contents     *)
(* order, inside the slot's SMALL_CAPACITY bytes.                          *)
(***************************************************************************)
PackedAt(ks, contents, k, pool_vaddr) ==
  /\ contents[k] \in DOMAIN ks
  /\ ~ks[contents[k]].unresolved /\ ks[contents[k]].valid /\ ~ks[contents[k]].clean
  /\ ks[contents[k]].data.some /\ ks[contents[k]].data.clean
  /\ ks[contents[k]].start = pool_vaddr + ReservedOf(SubSeq(contents, 1, k - 1), 1)
  /\ ks[contents[k]].start + ks[contents[k]].reserved <= pool_vaddr + SMALL_CAPACITY

C31_SyncPacks ==
  [][(op'.call = "sync_small_pool" /\ ~panicked') =>
       \A i \in 1 .. Len(small_pool') :
          /\ small_pool'[i].clean
          /\ ~small_pool[i].clean =>
               \A k \in 1 .. Len(small_pool'[i].contents) :
                  PackedAt(keys', small_pool'[i].contents, k, PoolVaddr(i - 1))]_vars


(***************************************************************************)
(* C32: a full sync that follows a key_update which created a small key    *)
(* leaves alone the on-disk body of every valid small key that is on disk  *)
(* and not in the cache: such a key reads back after the sync the body it  *)
(* read back before.  (A small key is unresolved from its creation to the  *)
(* next sync_small_pool.)                                                  *)
(***************************************************************************)
\* the descriptor slots of this dictionary that hold a valid key on disk
DiskSlots(map, pgs) ==
  {i \in 1 .. KEY_MAXCOUNT :
     /\ DescVaddr(i) \in DOMAIN map
     /\ pgs[map[DescVaddr(i)]].t = "desc"
     /\ pgs[map[DescVaddr(i)]].desc[(i % DK_PER_VPAGE) + 1].valid}

DiskDesc(map, pgs, i) == pgs[map[DescVaddr(i)]].desc[(i % DK_PER_VPAGE) + 1]

\* the len bytes at the descriptor's start, read through the page table
DiskBody(map, pgs, d) ==
  SubSeq(ExtentBytes(map, pgs, (d.start \div VPAGE_SIZE) * VPAGE_SIZE,
                     (d.start \div VPAGE_SIZE) * VPAGE_SIZE + 2 * VPAGE_SIZE),
         (d.start % VPAGE_SIZE) + 1, (d.start % VPAGE_SIZE) + d.len)

Uncached == {i \in DiskSlots(v2p, pages) :
               /\ DiskDesc(v2p, pages, i).name \notin DOMAIN keys
               /\ DiskDesc(v2p, pages, i).start < SMALL_POOL_END}

C32_LazySync ==
  [][(/\ op.call = "key_update" /\ op.ret = "Ok" /\ op.name \in DOMAIN keys
      /\ keys[op.name].unresolved /\ ~IsLarge(keys[op.name])
      /\ op'.call = "sync" /\ ~panicked') =>
       \A i \in Uncached :
          /\ i \in DiskSlots(v2p', pages')
          /\ DiskDesc(v2p', pages', i) = DiskDesc(v2p, pages, i)
          /\ DiskBody(v2p', pages', DiskDesc(v2p, pages, i))
               = DiskBody(v2p, pages, DiskDesc(v2p, pages, i))]_vars


(***************************************************************************)
(* C33: between calls, once small_pool is not empty, small_pool_free holds *)
(* one entry for every slot of small_pool, with the slot's avail.          *)
(***************************************************************************)
C33_FreePool ==
  (~panicked /\ Len(small_pool) > 0) =>
     small_pool_free = {[avail |-> small_pool[i].avail, index |-> i - 1] :
                          i \in 1 .. Len(small_pool)}


(***************************************************************************)
(* C34: fill returns the largest of LARGE_POOL_START and the ends          *)
(* start + reserved of the valid descriptors on disk that start in the     *)
(* large pool, whether or not their keys were in the cache.                *)
(***************************************************************************)
LargeEnds(map, pgs) ==
  {DiskDesc(map, pgs, i).start + DiskDesc(map, pgs, i).reserved :
     i \in {j \in DiskSlots(map, pgs) :
              DiskDesc(map, pgs, j).start >= LARGE_POOL_START}}

DiskTop(map, pgs) ==
  CHOOSE x \in LargeEnds(map, pgs) \cup {LARGE_POOL_START} :
     \A y \in LargeEnds(map, pgs) \cup {LARGE_POOL_START} : y <= x

C34_AllocTop ==
  [][(op'.call = "fill" /\ ~panicked') => fill(Cur).lap = DiskTop(v2p, pages)]_vars


(***************************************************************************)
(* C35: every small-pool slot lies inside the dictionary's small-pool      *)
(* region, s * SMALL_CAPACITY + SMALL_CAPACITY <= SMALL_POOL_STRIDE for    *)
(* every slot index s, and small_storage_index_from_key gives an index for *)
(* every valid key that was created small.                                 *)
(***************************************************************************)
C35_SlotBound ==
  ~panicked =>
     /\ \A i \in 1 .. Len(small_pool) :
          (i - 1) * SMALL_CAPACITY + SMALL_CAPACITY <= SMALL_POOL_STRIDE
     /\ \A n \in ValidNames :
          keys[n].data.some =>
             small_storage_index_from_key(keys[n], DictIndex) # NoIndex


(***************************************************************************)
(* C36: physical pages are conserved: every page is either free in         *)
(* fastspace, once, and mapped nowhere, or taken from fastspace and mapped *)
(* by exactly one virtual address.                                         *)
(***************************************************************************)
MappedAt(pp) == {a \in DOMAIN v2p : v2p[a] = pp}

C36_PagesConserved ==
  ~panicked =>
     \A pp \in PhysPages :
        \/ fastspace[pp] = 1 /\ MappedAt(pp) = {}
        \/ fastspace[pp] = 0 /\ Cardinality(MappedAt(pp)) = 1

C36_Witness ==
  /\ op.call = "key_remove" /\ ~panicked
  /\ \E pp \in PhysPages :
       /\ HwEvents(op.hw, "fast_space_free", pp) # {}
       /\ fastspace[pp] = 1 /\ MappedAt(pp) = {}
  /\ \E pp \in PhysPages : fastspace[pp] = 0 /\ Cardinality(MappedAt(pp)) = 1


(***************************************************************************)
(* C37: key_count is the number of entries of keys whose valid flag is     *)
(* set.                                                                    *)
(***************************************************************************)
C37_KeyCount == ~panicked => key_count = Cardinality(ValidNames)


(***************************************************************************)
(* C38: in a DictCacheEntry built by new from a header whose               *)
(* free_key_index is at least 1, every index that get_free_key_index can   *)
(* return (every index of the free ranges) lies in 1 .. KEY_MAXCOUNT.      *)
(***************************************************************************)
C38_IndexInRange ==
  (op.call = "new" /\ ~panicked /\ dict_hdr.free_key_index >= 1) =>
     FreeIndices(free_keys) \subseteq 1 .. KEY_MAXCOUNT


(***************************************************************************)
(* C39: fill passes over no descriptor of a readable page: when it has     *)
(* returned, every valid descriptor that lies on a readable descriptor     *)
(* page at an index below the one where the scan stopped has its name in   *)
(* the cache, whether or not the scan met an unreadable page on its way.   *)
(***************************************************************************)
DescAt(m, i) == ReadDescPage(m, i).desc[(i % DK_PER_VPAGE) + 1]
C40_Terminates ==
  [][/\ (op'.call = "key_update" /\ ~panicked') =>
          /\ op'.ret \in {"Ok", "OutOfIndex"}
          /\ age' - age \in 1 .. 3
     /\ (op'.call = "fill" /\ ~panicked') =>
          last_disk_key_index' \in 1 .. (KEY_MAXCOUNT - 1) + DK_PER_VPAGE]_vars

\* a small key regrown into a large one: removal, creation and write, three
\* invocations after the one that created it
C40_Witness ==
  /\ op.call = "key_update" /\ op.ret = "Ok" /\ ~panicked
  /\ steps = 2 /\ age = 4
  /\ DOMAIN keys = {op.name}
  /\ keys[op.name].valid /\ IsLarge(keys[op.name])

=============================================================================
